---- MODULE Spec2Model ----
(***************************************************************************)
(* A model of the gatewayrpc gateway (package gateway): the service        *)
(* registry with AddURL and the periodic refresh, the Request context      *)
(* handed to the RequestCallback, and the request pipeline of              *)
(* Gateway.ServeHTTP.                                                      *)
(*                                                                         *)
(* Strings the code takes apart (method names, URLs, content types, JSON   *)
(* bytes) are sequences of tokens, so that splitting, prefix tests and     *)
(* encoding are computed and not assumed.                                  *)
(***************************************************************************)
EXTENDS Integers, Sequences, FiniteSets, TLC

(***************************************************************************)
(* Bounds of the model.                                                    *)
(***************************************************************************)
\* handler invocations of ServeHTTP that are started
MaxRequests == 2
\* ticks delivered on the poll channel, hence refresh tasks spawned
MaxTicks == 1
\* direct calls of AddURL
MaxAddURL == 2
\* operations a RequestCallback performs on its Request
MaxCbOps == 2
\* refresh tasks
MaxRefresh == 2
\* fields of a generated struct
MaxFields == 2
\* layers of slice, array, map and pointer around a type
MaxDepth == 1
\* methods of a receiver
MaxMethods == 2
\* calls of RegisterService
MaxRegister == 2
\* calls of importServices and RegisterRemoteServices
MaxImports == 3

(***************************************************************************)
(* Small helpers on sequences and functions.                               *)
(***************************************************************************)
\* the function f extended or overwritten at key k (Go: m[k] = v)
MapSet(f, k, v) ==
  [x \in (DOMAIN f) \cup {k} |-> IF x = k THEN v ELSE f[x]]

\* the empty map
EmptyMap == [x \in {} |-> {}]

\* the function f without key k
MapRemove(f, k) == [x \in (DOMAIN f) \ {k} |-> f[x]]

\* index of the first occurrence of token sep in s, 0 if there is none
\* (strings.Index, 1-based)
RECURSIVE IndexFrom(_, _, _)
IndexFrom(s, sep, i) ==
  IF i > Len(s) THEN 0
  ELSE IF s[i] = sep THEN i
  ELSE IndexFrom(s, sep, i + 1)

Index(s, sep) == IndexFrom(s, sep, 1)

\* strings.SplitN(s, sep, 2): at most two parts, cut at the first sep
SplitN2(s, sep) ==
  LET i == Index(s, sep) IN
  IF i = 0 THEN << s >>
  ELSE << SubSeq(s, 1, i - 1), SubSeq(s, i + 1, Len(s)) >>

\* strings.HasPrefix
HasPrefix(s, p) ==
  /\ Len(s) >= Len(p)
  /\ SubSeq(s, 1, Len(p)) = p

(***************************************************************************)
(* JSON values and bytes (encoding/json).                                  *)
(***************************************************************************)
\* params of the test type FooArgs: one field "a"
FooArgsVals == { [a |-> "0"], [a |-> "5"] }
\* a value json.Marshal rejects (a channel, a func)
Unmarshalable == [chan |-> "c"]
\* the nil interface value
Nil == [nil |-> TRUE]
\* what a client or a callback may pass as params
ParamVals == FooArgsVals \cup {Unmarshalable}

\* json.Marshal
Marshal(v) ==
  IF v \in FooArgsVals
  THEN [err |-> FALSE, bytes |-> << "{", "a", ":", v.a, "}" >>]
  ELSE [err |-> TRUE, bytes |-> << >>]

\* the types a caller may hand to ReadRequest as out
OutTypes == {"FooArgs", "int"}
\* the zero value of an out type
Zero(t) == IF t = "FooArgs" THEN [a |-> "0"] ELSE [int |-> "0"]

\* json.Unmarshal(bytes, out) for an out of type t holding old
Unmarshal(bytes, t, old) ==
  IF bytes = << "null" >> THEN [err |-> FALSE, v |-> old]
  ELSE IF /\ t = "FooArgs"
          /\ Len(bytes) = 5
          /\ bytes[1] = "{" /\ bytes[2] = "a" /\ bytes[3] = ":" /\ bytes[5] = "}"
       THEN [err |-> FALSE, v |-> [a |-> bytes[4]]]
  ELSE [err |-> TRUE, v |-> old]

(***************************************************************************)
(* The codec request adaptor (rpc.CodecRequest of json2), as far as the    *)
(* gateway uses it: the decoded method, the raw params and the sticky      *)
(* error of the adaptor.                                                   *)
(***************************************************************************)
\* method names a request may carry
MethodStrs ==
  { << "S", ".", "M" >>, << "S", ".", "N" >>, << "S", ".", "Z" >>,
    << "T", ".", "M" >>, << "U", ".", "X" >>, << "S" >>,
    << "S", ".", "M", ".", "M" >> }

\* codec.NewRequest(r): the body is decoded, or the adaptor holds an error
NewCodecRequests ==
  { [err |-> TRUE, method |-> << >>, params |-> << >>] } \cup
  { [err |-> FALSE, method |-> m, params |-> Marshal(p).bytes] :
      m \in MethodStrs, p \in FooArgsVals }

\* codecReq.Method()
CodecMethod(cr) ==
  IF cr.err THEN [err |-> TRUE, m |-> << >>]
  ELSE [err |-> FALSE, m |-> cr.method]

\* codecReq.ReadRequest(out): the adaptor keeps the error of a failed read
CodecReadRequest(cr, t, old) ==
  IF cr.err THEN [cr |-> cr, err |-> TRUE, v |-> old]
  ELSE LET u == Unmarshal(cr.params, t, old) IN
       [cr |-> [cr EXCEPT !.err = u.err], err |-> u.err, v |-> u.v]

\* codecReq.ReadRequest(&r.args): a json.RawMessage takes the bytes as they are
CodecReadRaw(cr) ==
  IF cr.err THEN [err |-> TRUE, bytes |-> << >>]
  ELSE [err |-> FALSE, bytes |-> cr.params]

(***************************************************************************)
(* The Request context (gateway/request.go).  A Request q carries the      *)
(* codec adaptor, the pending method override, the pending argument bytes, *)
(* the responded flag and the client's ResponseWriter; passedMethod,       *)
(* passedParams and storedParams are history fields that remember what the *)
(* callback handed to UpdateRequest.                                       *)
(***************************************************************************)
\* a write through the codec adaptor or writeErrorf onto the ResponseWriter
Written(via, kind, status, body) ==
  [via |-> via, kind |-> kind, status |-> status, body |-> body]

\* the Request that ServeHTTP builds around a codec request
NewRequest(cr) ==
  [codecReq |-> cr, newMethod |-> << >>, args |-> << >>,
   responded |-> FALSE, respWriter |-> << >>,
   passedMethod |-> << >>, passedParams |-> Nil, storedParams |-> Nil]

\* Request.Method
Method(q) ==
  IF q.newMethod # << >> THEN [err |-> FALSE, m |-> q.newMethod]
  ELSE CodecMethod(q.codecReq)

\* WriteError as it would be if it did not set the responded flag
WriteErrorUnflagged(q, status, e) ==
  [q EXCEPT !.respWriter = Append(@, Written("Request", "error", status, e))]

\* Request.WriteError
WriteError(q, status, e) ==
  [q EXCEPT !.responded = TRUE,
            !.respWriter = Append(@, Written("Request", "error", status, e))]

\* Request.WriteResponse
WriteResponse(q, i) ==
  [q EXCEPT !.responded = TRUE,
            !.respWriter = Append(@, Written("Request", "response", 200, i))]

\* ReadRequest as it would be if it always read the codec's arguments
ReadRequestFromCodec(q, t) ==
  LET c == CodecReadRequest(q.codecReq, t, Zero(t)) IN
  [q |-> [q EXCEPT !.codecReq = c.cr], err |-> c.err, v |-> c.v]

\* Request.ReadRequest(v), v of type t: the Request after the call, the error
\* and the value left in v
ReadRequest(q, t) ==
  IF Len(q.args) > 0
  THEN LET u == Unmarshal(q.args, t, Zero(t)) IN
       [q |-> q, err |-> u.err, v |-> u.v]
  ELSE LET c == CodecReadRequest(q.codecReq, t, Zero(t)) IN
       [q |-> [q EXCEPT !.codecReq = c.cr], err |-> c.err, v |-> c.v]

\* Request.UpdateRequest(method, params): the Request after the call and
\* the error returned
UpdateRequest(q, method, params) ==
  LET q1 == IF method # << >>
            THEN [q EXCEPT !.newMethod = method, !.passedMethod = method]
            ELSE q
      a == Marshal(params)
  IN  IF params = Nil THEN [q |-> q1, err |-> FALSE]
      ELSE IF a.err
      THEN [q |-> [q1 EXCEPT !.passedParams = params], err |-> TRUE]
      ELSE [q |-> [q1 EXCEPT !.args = a.bytes,
                             !.passedParams = params,
                             !.storedParams = params],
            err |-> FALSE]

\* json2.EncodeClientRequest(m, &args): a fresh envelope; nil args encode
\* as null
EncodeClientRequest(m, args) ==
  << "{", "jsonrpc:2.0", "method:" >> \o m \o << "params:" >>
    \o (IF args = << >> THEN << "null" >> ELSE args) \o << "id:new", "}" >>

\* what a JSON-RPC server reads out of such an envelope
DecodeClientRequest(b) ==
  LET i == Index(b, "method:")
      j == Index(b, "params:")
      k == Index(b, "id:new")
  IN  [method |-> SubSeq(b, i + 1, j - 1), params |-> SubSeq(b, j + 1, k - 1)]

\* getClientRequest as it would be if it encoded the codec's method
getClientRequestCodecMethod(q) ==
  LET raw == CodecReadRaw(q.codecReq)
      q1 == IF Len(q.args) = 0 /\ ~raw.err
            THEN [q EXCEPT !.args = raw.bytes] ELSE q
      m == CodecMethod(q1.codecReq)
  IN  IF Len(q.args) = 0 /\ raw.err THEN [q |-> q, err |-> TRUE, b |-> << >>]
      ELSE IF m.err THEN [q |-> q1, err |-> TRUE, b |-> << >>]
      ELSE [q |-> q1, err |-> FALSE, b |-> EncodeClientRequest(m.m, q1.args)]

\* Request.getClientRequest: the Request after the call, the error and the
\* bytes of the outgoing envelope
getClientRequest(q) ==
  LET raw == CodecReadRaw(q.codecReq)
      q1 == IF Len(q.args) = 0 /\ ~raw.err
            THEN [q EXCEPT !.args = raw.bytes] ELSE q
      m == Method(q1)
  IN  IF Len(q.args) = 0 /\ raw.err THEN [q |-> q, err |-> TRUE, b |-> << >>]
      ELSE IF m.err THEN [q |-> q1, err |-> TRUE, b |-> << >>]
      ELSE [q |-> q1, err |-> FALSE, b |-> EncodeClientRequest(m.m, q1.args)]

(***************************************************************************)
(* What a RequestCallback may do with its Request: a run of at most        *)
(* MaxCbOps operations.                                                    *)
(***************************************************************************)
\* methods a callback may pass to UpdateRequest ("" leaves the method)
CbMethods == { << >>, << "S", ".", "N" >>, << "T", ".", "M" >> }
\* params a callback may pass to UpdateRequest (nil leaves the arguments)
CbParams == { Nil, [a |-> "5"], Unmarshalable }

CbOps ==
  { [op |-> "ReadRequest", t |-> t] : t \in OutTypes } \cup
  { [op |-> "UpdateRequest", method |-> m, params |-> p] :
      m \in CbMethods, p \in CbParams } \cup
  { [op |-> "WriteError", status |-> 400] } \cup
  { [op |-> "WriteResponse", v |-> [Success |-> "true"]] }

\* the Request after one operation of the callback
ApplyOp(q, o) ==
  CASE o.op = "ReadRequest" -> ReadRequest(q, o.t).q
    [] o.op = "UpdateRequest" -> UpdateRequest(q, o.method, o.params).q
    [] o.op = "WriteError" -> WriteError(q, o.status, "callback error")
    [] o.op = "WriteResponse" -> WriteResponse(q, o.v)

\* the runs of a callback: sequences of at most MaxCbOps operations
CbRuns == UNION { [1..n -> CbOps] : n \in 0..MaxCbOps }

\* the Request after a run of the callback
RECURSIVE ApplyRun(_, _)
ApplyRun(q, run) ==
  IF run = << >> THEN q
  ELSE ApplyRun(ApplyOp(q, Head(run)), Tail(run))

(***************************************************************************)
(* URLs (net/url) and the backends behind them.                            *)
(***************************************************************************)
\* the nil *url.URL
NilURL == [nil |-> TRUE]

\* url.Parse: a text with an invalid escape is rejected; the host is what
\* follows "://", and a text without "://" has no host
ParseURL(u) ==
  LET i == Index(u, "://") IN
  IF Index(u, "%") # 0 THEN [err |-> TRUE, url |-> NilURL]
  ELSE IF i = 0
  THEN [err |-> FALSE, url |-> [Scheme |-> << >>, Host |-> << >>]]
  ELSE [err |-> FALSE,
        url |-> [Scheme |-> SubSeq(u, 1, i - 1),
                 Host |-> SubSeq(u, i + 1, Len(u))]]

\* URL.String
URLString(uu) == uu.Scheme \o << "://" >> \o uu.Host

\* srv.MaybeSRV(host): the host:port of an SRV answer, or the host itself
\* when the SRV lookup fails
MaybeSRV(host) == { host, host \o << ":", "8080" >> }

\* Gateway.resolveURL: the copies of uu the call may return
resolveURL(uu) == { [uu EXCEPT !.Host = hst] : hst \in MaybeSRV(uu.Host) }

\* the texts handed to AddURL
URLInputs ==
  { << "http", "://", "a" >>, << "b" >>, << "http", "bin" >>,
    << "http", "://" >>, << "http", "://", "%" >> }

\* gatewaytypes.Method and gatewaytypes.Service
MethodOf(name) == [Name |-> name]
ServiceOf(name, methods) ==
  [Name |-> name, Methods |-> [m \in methods |-> MethodOf(m)]]
ZeroMethod == [Name |-> << >>]
ZeroService == [Name |-> << >>, Methods |-> << >>]

\* the schemas the backends publish: service S in two versions, services T
\* and U
SvcS1 == ServiceOf(<< "S" >>, { << "M" >> })
SvcS2 == ServiceOf(<< "S" >>, { << "M" >>, << "N" >> })
SvcT == ServiceOf(<< "T" >>, { << "M" >> })
SvcU == ServiceOf(<< "U" >>, { << "X" >> })

\* the lists a backend may answer to RPC.GetServices, by host name
GetServices(host) ==
  IF host = << >> THEN {}
  ELSE IF Head(host) = "a" THEN { << SvcS1, SvcT >>, << SvcS2 >> }
  ELSE IF Head(host) = "b" THEN { << SvcS2, SvcU >> }
  ELSE {}

\* rpcutil.JSONRPC2Call(u2, &res, "RPC.GetServices", ...): an error, or the
\* services of the answer
JSONRPC2Call(u2) ==
  { [err |-> TRUE, Services |-> << >>] } \cup
  { [err |-> FALSE, Services |-> l] : l \in GetServices(u2.Host) }

\* type remoteService and its zero value
RemoteService(srv, uu, u) == [Service |-> srv, URL |-> uu, origURL |-> u]
ZeroRemote == RemoteService(ZeroService, NilURL, << >>)

(***************************************************************************)
(* Replies of the target handlers.                                         *)
(***************************************************************************)
\* what a backend or the BackupHandler may answer: a result, the result of
\* a reply left nil (a nil slice, map or pointer encodes as null), a JSON-RPC
\* error, or a body that is no JSON-RPC reply
UpstreamReplies ==
  { [status |-> 200,
     body |-> << "{", "result:", "{", "a", ":", "5", "}", "}" >>],
    [status |-> 200, body |-> << "{", "result:", "null", "}" >>],
    [status |-> 400, body |-> << "{", "error:", "E", "}" >>],
    [status |-> 502, body |-> << "<html>" >>] }

\* what became of the request at the target handler: nothing yet, an error
\* of the transport, or a reply of the upstream
NoUpstream == [kind |-> "none", status |-> 0, body |-> << >>]
TransportFailed == [kind |-> "failed", status |-> 0, body |-> << >>]
Replied(reply) ==
  [kind |-> "reply", status |-> reply.status, body |-> reply.body]

\* httptest.NewRecorder
NewRecorder == [Code |-> 200, Body |-> << >>]

\* ExternalFailed as it would be if externalHandler only logged the failure
ExternalFailedSilently == NewRecorder

\* externalHandler when http.DefaultClient.Do fails: writeErrorf(w, 500, "{}")
ExternalFailed == [Code |-> 500, Body |-> << "{", "}" >>]

\* externalHandler on a reply: the body is copied, the status is not
ExternalCopied(reply) == [NewRecorder EXCEPT !.Body = reply.body]

\* json2.DecodeClientResponse
DecodeClientResponse(body) ==
  IF body = << "{", "result:", "null", "}" >>
  THEN [err |-> TRUE, result |-> << >>, e |-> "result is null"]
  ELSE IF Len(body) >= 3 /\ body[1] = "{" /\ body[2] = "result:"
  THEN [err |-> FALSE, result |-> SubSeq(body, 3, Len(body) - 1), e |-> ""]
  ELSE IF Len(body) >= 3 /\ body[1] = "{" /\ body[2] = "error:"
  THEN [err |-> TRUE, result |-> << >>, e |-> body[3]]
  ELSE IF body = << "{", "}" >>
  THEN [err |-> TRUE, result |-> << >>, e |-> "result is null"]
  ELSE [err |-> TRUE, result |-> << >>, e |-> "decode error"]

(***************************************************************************)
(* State.                                                                  *)
(***************************************************************************)
VARIABLES
  services,         \* Gateway.services: service name -> remoteService
  mutex,            \* the sync.RWMutex values, one per Gateway value
  codecs,           \* Gateway.codecs: the content types with a codec
  poll,             \* Gateway.poll: TRUE when a tick waits in the channel
  BackupHandler,    \* Gateway.BackupHandler is not nil
  RequestCallback,  \* Gateway.RequestCallback is not nil
  CORSMatch,        \* Gateway.CORSMatch is not nil
  h,                \* the invocations of ServeHTTP, by goroutine
  call,             \* the calls of AddURL, by calling goroutine
  task,             \* the refresh tasks (go g.refreshURLs())
  crashed,          \* the Go runtime has aborted the process
  ticks,            \* ticks delivered so far
  started,          \* invocations of ServeHTTP started so far
  adds,             \* direct calls of AddURL started so far
  got,              \* the last call of GetMethodURL and what it returned
  server,           \* the introspection Server: its list and its rpc.Server
  probe,            \* the calls of the extractor and of the Server
  remoteServices    \* GatewayServer.remoteServices: the ServiceList

vars ==
  << services, mutex, codecs, poll, BackupHandler, RequestCallback,
     CORSMatch, h, call, task, crashed, ticks, started, adds, got, server,
     probe, remoteServices >>

config == << codecs, BackupHandler, RequestCallback, CORSMatch >>

\* the goroutines: the handler invocations, the caller of AddURL outside
\* the handler, and the refresh tasks
Handlers == { << "ServeHTTP", 1 >> }
Main == << "main", 0 >>
Tasks == { << "refreshURLs", n >> : n \in 1..MaxRefresh }
Callers == {Main} \cup Tasks
\* the goroutine that asks GetMethodURL
Client == << "GetMethodURL", 0 >>

\* the Gateway value a method call of goroutine p operates on.  Every method
\* has a value receiver (func (g Gateway) ...), so each call works on its own
\* copy of the struct: the maps and the channel are shared through the copy,
\* the mutex field is copied with it.
Shared == << "Gateway", 0 >>
Receiver(p) == p

\* sync.RWMutex, unlocked
Unlocked == [w |-> FALSE, r |-> 0]
\* Lock / Unlock / RLock / RUnlock on the mutex of p's receiver
CanLock(p) == ~mutex[Receiver(p)].w /\ mutex[Receiver(p)].r = 0
Lock(p) == [mutex EXCEPT ![Receiver(p)].w = TRUE]
Unlock(p) == [mutex EXCEPT ![Receiver(p)].w = FALSE]
CanRLock(p) == ~mutex[Receiver(p)].w
RLock(p) == [mutex EXCEPT ![Receiver(p)].r = @ + 1]
RUnlock(p) == [mutex EXCEPT ![Receiver(p)].r = @ - 1]

\* Gateway.RegisterCodec: the key is the lowercased content type
ToLower(tok) ==
  CASE tok = "Application/JSON" -> "application/json"
    [] tok = "Text/XML" -> "text/xml"
    [] OTHER -> tok
ToLowerSeq(s) == [i \in 1..Len(s) |-> ToLower(s[i])]
RegisterCodec(cs, contentType) == cs \cup { ToLowerSeq(contentType) }

\* the codec sets a setup may leave behind
CodecSetups ==
  { {},
    RegisterCodec({}, << "application/json" >>),
    RegisterCodec(RegisterCodec({}, << "Application/JSON" >>),
                  << "Text/XML" >>) }

\* the codec adaptor and the Request before ServeHTTP has made them
NoCodecRequest == [err |-> TRUE, method |-> << >>, params |-> << >>]

\* a goroutine that is not inside ServeHTTP
IdleHandler ==
  [pc |-> "idle", httpMethod |-> "", origin |-> "", contentType |-> << >>,
   cors |-> "", codec |-> << >>, codecReq |-> NoCodecRequest,
   req |-> NewRequest(NoCodecRequest), hasReq |-> FALSE,
   rsrv |-> ZeroRemote, rpcMethod |-> ZeroMethod, err |-> "",
   handler |-> "nil", URL |-> NilURL, Body |-> << >>,
   rec |-> NewRecorder, upstream |-> NoUpstream, sent |-> << >>,
   w |-> << >>, cbCalls |-> 0, RequestURI |-> << "/" >>]

\* no call of AddURL in progress
NoCall ==
  [pc |-> "none", u |-> << >>, uu |-> NilURL, res |-> << >>, i |-> 0,
   slot |-> "", fresh |-> FALSE, ret |-> "none"]

\* no call of GetMethodURL so far
NoGot ==
  [called |-> FALSE, mStr |-> << >>, registered |-> FALSE, url |-> NilURL,
   err |-> "", panicked |-> FALSE]

\* a refresh task that has not been spawned
NoTask == [pc |-> "unborn", srvs |-> << >>]

(***************************************************************************)
(* Gateway.AddURL.                                                         *)
(***************************************************************************)
\* the text AddURL goes on with: "http://" is put in front of a text that
\* does not begin with "http"
WithScheme(u) ==
  IF ~HasPrefix(u, << "http" >>) THEN << "http", "://" >> \o u ELSE u

\* the call of p returns: err is "nil" or the kind of error
Returned(p, err) == [call EXCEPT ![p] = [NoCall EXCEPT !.ret = err]]

\* AddURL up to the answer of RPC.GetServices: the text is parsed, the host
\* resolved and the services fetched; every failure returns before the
\* registry is touched
AddURLFetch(p, u) ==
  LET u1 == WithScheme(u)
      pr == ParseURL(u1)
  IN  IF pr.err THEN call' = Returned(p, "parse")
      ELSE IF pr.url.Host = << >> THEN call' = Returned(p, "invalid url")
      ELSE \E u2 \in resolveURL(pr.url) : \E out \in JSONRPC2Call(u2) :
             IF out.err THEN call' = Returned(p, "fetch")
             ELSE call' = [call EXCEPT ![p] =
                             [pc |-> "lock", u |-> u1, uu |-> pr.url,
                              res |-> out.Services, i |-> 1, slot |-> "",
                              fresh |-> FALSE, ret |-> "none"]]

\* a goroutine outside the handler calls AddURL(u)
AddURL(u) ==
  /\ ~crashed
  /\ call[Main].pc = "none"
  /\ adds < MaxAddURL
  /\ adds' = adds + 1
  /\ AddURLFetch(Main, u)
  /\ UNCHANGED << services, mutex, config, poll, h, task, crashed, ticks,
                  started, got, server, probe, remoteServices >>

\* g.mutex.Lock() in AddURL
AddURLLock(p) ==
  /\ ~crashed
  /\ call[p].pc = "lock"
  /\ CanLock(p)
  /\ mutex' = Lock(p)
  /\ call' = [call EXCEPT ![p].pc =
                IF call[p].res = << >> THEN "unlock" ELSE "store"]
  /\ UNCHANGED << services, config, poll, h, task, crashed, ticks, started,
                  adds, got, server, probe, remoteServices >>

\* the entry of key k as a lookup returns it (the zero value when absent)
Lookup(k) == IF k \in DOMAIN services THEN services[k] ELSE ZeroRemote

\* g.services[srv.Name] = remoteService{...} is a map assignment that is not
\* atomic: it finds the slot of the key (a free one when the key is new),
\* then copies the struct into the slot in two parts, first the embedded
\* Service, then URL and origURL.  slot is the key of the slot the call
\* writes to and fresh says that the call took a free slot for it.
\*
\* the calls whose free slot a call of p that inserts a new key may have
\* found free as well: the writers that are between the two parts
SameSlot(p) ==
  { c \in Callers \ {p} :
      /\ call[c].pc = "store2"
      /\ call[c].fresh
      /\ call[c].slot \in DOMAIN services }

AddURLStoreService(p) ==
  /\ ~crashed
  /\ call[p].pc = "store"
  /\ LET srv == call[p].res[call[p].i]
         k == srv.Name
         isNew == k \notin DOMAIN services
     IN  \E c \in {p} \cup (IF isNew THEN SameSlot(p) ELSE {}) :
           IF c = p
           THEN /\ services' = MapSet(services, k,
                                      [Lookup(k) EXCEPT !.Service = srv])
                /\ call' = [call EXCEPT ![p].pc = "store2", ![p].slot = k,
                                        ![p].fresh = isNew]
           ELSE LET k2 == call[c].slot IN
                /\ services' = MapSet(MapRemove(services, k2), k,
                                      [services[k2] EXCEPT !.Service = srv])
                /\ call' = [q \in Callers |->
                              IF q = p
                              THEN [call[p] EXCEPT !.pc = "store2",
                                                   !.slot = k,
                                                   !.fresh = TRUE]
                              ELSE IF call[q].pc = "store2"
                                      /\ call[q].slot = k2
                              THEN [call[q] EXCEPT !.slot = k]
                              ELSE call[q]]
  /\ UNCHANGED << mutex, config, poll, h, task, crashed, ticks, started, adds,
                  got, server, probe, remoteServices >>

AddURLStoreURL(p) ==
  /\ ~crashed
  /\ call[p].pc = "store2"
  /\ services' = MapSet(services, call[p].slot,
                        [Lookup(call[p].slot) EXCEPT
                           !.URL = call[p].uu, !.origURL = call[p].u])
  /\ call' = [call EXCEPT ![p].i = @ + 1,
                          ![p].slot = "",
                          ![p].fresh = FALSE,
                          ![p].pc = IF call[p].i = Len(call[p].res)
                                    THEN "unlock" ELSE "store"]
  /\ UNCHANGED << mutex, config, poll, h, task, crashed, ticks, started, adds,
                  got, server, probe, remoteServices >>

\* AddURLUnlock as it would be if AddURL returned with the lock held
AddURLReturnsLocked(p) ==
  /\ ~crashed
  /\ call[p].pc = "unlock"
  /\ mutex' = mutex
  /\ call' = Returned(p, "nil")
  /\ UNCHANGED << services, config, poll, h, task, crashed, ticks, started,
                  adds, got, server, probe, remoteServices >>

\* the deferred g.mutex.Unlock() and return nil
AddURLUnlock(p) ==
  /\ ~crashed
  /\ call[p].pc = "unlock"
  /\ mutex' = Unlock(p)
  /\ call' = Returned(p, "nil")
  /\ UNCHANGED << services, config, poll, h, task, crashed, ticks, started,
                  adds, got, server, probe, remoteServices >>

(***************************************************************************)
(* Gateway.refreshURLs, started by a handler as a goroutine of its own.    *)
(***************************************************************************)
\* the orders in which a range over the map may visit the keys
Orders(keys) ==
  { o \in [1..Cardinality(keys) -> keys] :
      \A i, j \in 1..Cardinality(keys) : i # j => o[i] # o[j] }

\* the copy of the entries taken under the read lock
refreshSnapshot(t) ==
  /\ ~crashed
  /\ task[t].pc = "snapshot"
  /\ CanRLock(t)
  /\ \E o \in Orders(DOMAIN services) :
       task' = [task EXCEPT ![t] =
                  [pc |-> "loop",
                   srvs |-> [i \in 1..Len(o) |-> services[o[i]].origURL]]]
  /\ UNCHANGED << services, mutex, config, poll, h, call, crashed, ticks,
                  started, adds, got, server, probe, remoteServices >>

\* refreshAddURL as it would be if a refresh dropped the entries of a URL
\* whose fetch failed
refreshAddURLDropsOnFailure(t) ==
  /\ ~crashed
  /\ task[t].pc = "loop"
  /\ call[t].pc = "none"
  /\ task[t].srvs # << >>
  /\ AddURLFetch(t, Head(task[t].srvs))
  /\ task' = [task EXCEPT ![t].srvs = Tail(@)]
  /\ services' =
       IF call'[t].ret \in {"none", "nil"} THEN services
       ELSE [k \in { x \in DOMAIN services :
                       services[x].origURL # Head(task[t].srvs) } |->
               services[k]]
  /\ UNCHANGED << mutex, config, poll, h, crashed, ticks, started, adds, got,
                  server, probe, remoteServices >>

\* the next g.AddURL(srv.origURL) of the loop; its error is only logged
refreshAddURL(t) ==
  /\ ~crashed
  /\ task[t].pc = "loop"
  /\ call[t].pc = "none"
  /\ task[t].srvs # << >>
  /\ AddURLFetch(t, Head(task[t].srvs))
  /\ task' = [task EXCEPT ![t].srvs = Tail(@)]
  /\ UNCHANGED << services, mutex, config, poll, h, crashed, ticks, started,
                  adds, got, server, probe, remoteServices >>

\* the loop is through
refreshDone(t) ==
  /\ ~crashed
  /\ task[t].pc = "loop"
  /\ call[t].pc = "none"
  /\ task[t].srvs = << >>
  /\ task' = [task EXCEPT ![t].pc = "done"]
  /\ UNCHANGED << services, mutex, config, poll, h, call, crashed, ticks,
                  started, adds, got, server, probe, remoteServices >>

\* time.Tick(30 * time.Second): a tick is put into the channel, which holds
\* one
TickWithin(max) ==
  /\ ~crashed
  /\ ~poll
  /\ ticks < max
  /\ poll' = TRUE
  /\ ticks' = ticks + 1
  /\ UNCHANGED << services, mutex, config, h, call, task, crashed, started,
                  adds, got, server, probe, remoteServices >>

Tick == TickWithin(MaxTicks)

(***************************************************************************)
(* Gateway.ServeHTTP.                                                      *)
(***************************************************************************)
\* what a request may carry
HTTPMethods == {"POST", "OPTIONS", "GET"}
Origins == {"", "https://ok.example", "https://evil.example"}
ContentTypes ==
  { << >>, << "application/json" >>,
    << "Application/JSON", ";", "charset=utf-8" >>,
    << ";", "charset=utf-8" >>, << "text/xml" >>, << "text/plain" >> }

\* a backend that always answers with a result
GoodReplies ==
  { [status |-> 200,
     body |-> << "{", "result:", "{", "a", ":", "5", "}", "}" >>] }

\* the inputs of the handler: every request and every behaviour of callback
\* and target handler
AllInputs ==
  [Origins |-> Origins, HTTPMethods |-> HTTPMethods,
   ContentTypes |-> ContentTypes, NewCodecRequests |-> NewCodecRequests,
   CbRuns |-> CbRuns, UpstreamReplies |-> UpstreamReplies]

\* the inputs of the handler where the registry is the subject: JSON-RPC
\* POSTs of well-formed bodies
RoutedInputs ==
  [Origins |-> {""}, HTTPMethods |-> {"POST"},
   ContentTypes |-> { << "application/json" >> },
   NewCodecRequests |->
     { [err |-> FALSE, method |-> m, params |-> Marshal([a |-> "0"]).bytes] :
         m \in { << "S", ".", "N" >>, << "T", ".", "M" >> } },
   CbRuns |-> { << >> }, UpstreamReplies |-> GoodReplies]

\* g.CORSMatch.MatchString(origin), for the pattern of the setup
MatchString(origin) == origin = "https://ok.example"

\* writeErrorf(w, status, ...): a plain-text error
writeErrorf(w, status) ==
  Append(w, Written("gateway", "plain", status, "text/plain"))

\* codecReq.WriteError(w, status, err) and codecReq.WriteResponse(w, res),
\* called by ServeHTTP itself
codecWriteError(w, status, e) ==
  Append(w, Written("gateway", "error", status, e))
codecWriteResponse(w, res) ==
  Append(w, Written("gateway", "response", 200, res))

\* ServeHTTP returns
Return(r, hr) == h' = [h EXCEPT ![r] = [hr EXCEPT !.pc = "done"]]

\* ServePollTick as it would be if the tick stayed in the channel
ServePollTickLeavesTick(r) ==
  /\ ~crashed
  /\ h[r].pc = "idle"
  /\ started < MaxRequests
  /\ poll
  /\ poll' = poll
  /\ \E t \in Tasks :
       /\ task[t].pc = "unborn"
       /\ \A t2 \in Tasks : task[t2].pc = "unborn" => t[2] <= t2[2]
       /\ task' = [task EXCEPT ![t].pc = "snapshot"]
  /\ started' = started + 1
  /\ h' = [h EXCEPT ![r].pc = "serve"]
  /\ UNCHANGED << services, mutex, config, call, crashed, ticks, adds, got,
                  server, probe, remoteServices >>

\* the select on g.poll: a waiting tick is taken and a refresh task started
ServePollTick(r) ==
  /\ ~crashed
  /\ h[r].pc = "idle"
  /\ started < MaxRequests
  /\ poll
  /\ poll' = FALSE
  /\ \E t \in Tasks :
       /\ task[t].pc = "unborn"
       /\ \A t2 \in Tasks : task[t2].pc = "unborn" => t[2] <= t2[2]
       /\ task' = [task EXCEPT ![t].pc = "snapshot"]
  /\ started' = started + 1
  /\ h' = [h EXCEPT ![r].pc = "serve"]
  /\ UNCHANGED << services, mutex, config, call, crashed, ticks, adds, got,
                  server, probe, remoteServices >>

\* the select on g.poll: no tick waits, the default case is taken
ServePollDefault(r) ==
  /\ ~crashed
  /\ h[r].pc = "idle"
  /\ started < MaxRequests
  /\ ~poll
  /\ started' = started + 1
  /\ h' = [h EXCEPT ![r].pc = "serve"]
  /\ UNCHANGED << services, mutex, config, poll, call, task, crashed, ticks,
                  adds, got, server, probe, remoteServices >>

\* ServeCheckMethod as it would be if only a preflight got the CORS headers
ServeCheckMethodCORSOnPreflight(r, in) ==
  /\ ~crashed
  /\ h[r].pc = "serve"
  /\ \E origin \in in.Origins, httpMethod \in in.HTTPMethods :
       LET hr == [h[r] EXCEPT
                    !.origin = origin,
                    !.httpMethod = httpMethod,
                    !.cors = IF httpMethod = "OPTIONS" /\ origin # ""
                                /\ CORSMatch /\ MatchString(origin)
                             THEN origin ELSE ""]
       IN  IF httpMethod = "OPTIONS" THEN Return(r, hr)
           ELSE IF httpMethod # "POST"
           THEN Return(r, [hr EXCEPT !.w = writeErrorf(@, 405)])
           ELSE h' = [h EXCEPT ![r] = [hr EXCEPT !.pc = "codec"]]
  /\ UNCHANGED << services, mutex, config, poll, call, task, crashed, ticks,
                  started, adds, got, server, probe, remoteServices >>

\* ServeCheckMethod as it would be without the rejection of other methods
ServeCheckMethodAnyMethod(r, in) ==
  /\ ~crashed
  /\ h[r].pc = "serve"
  /\ \E origin \in in.Origins, httpMethod \in in.HTTPMethods :
       LET hr == [h[r] EXCEPT
                    !.origin = origin,
                    !.httpMethod = httpMethod,
                    !.cors = IF origin # "" /\ CORSMatch /\ MatchString(origin)
                             THEN origin ELSE ""]
       IN  IF httpMethod = "OPTIONS" THEN Return(r, hr)
           ELSE h' = [h EXCEPT ![r] = [hr EXCEPT !.pc = "codec"]]
  /\ UNCHANGED << services, mutex, config, poll, call, task, crashed, ticks,
                  started, adds, got, server, probe, remoteServices >>

\* the CORS headers, the OPTIONS return and the POST check
ServeCheckMethod(r, in) ==
  /\ ~crashed
  /\ h[r].pc = "serve"
  /\ \E origin \in in.Origins, httpMethod \in in.HTTPMethods :
       LET hr == [h[r] EXCEPT
                    !.origin = origin,
                    !.httpMethod = httpMethod,
                    !.cors = IF origin # "" /\ CORSMatch /\ MatchString(origin)
                             THEN origin ELSE ""]
       IN  IF httpMethod = "OPTIONS" THEN Return(r, hr)
           ELSE IF httpMethod # "POST"
           THEN Return(r, [hr EXCEPT !.w = writeErrorf(@, 405)])
           ELSE h' = [h EXCEPT ![r] = [hr EXCEPT !.pc = "codec"]]
  /\ UNCHANGED << services, mutex, config, poll, call, task, crashed, ticks,
                  started, adds, got, server, probe, remoteServices >>

\* contentType[:idx] for the first ";"
CutParams(contentType) ==
  LET idx == Index(contentType, ";") IN
  IF idx # 0 THEN SubSeq(contentType, 1, idx - 1) ELSE contentType

\* SelectCodec as it would be if the key were not lowercased
SelectCodecCaseSensitive(contentType) ==
  LET ct == CutParams(contentType) IN
  IF ct = << >> /\ Cardinality(codecs) = 1
  THEN CHOOSE c \in codecs : TRUE
  ELSE IF ct \in codecs /\ ct # << >>
  THEN ct
  ELSE << >>

\* the codec of a request: the only one when no content type was sent,
\* else the one registered under the lowercased type; << >> is no codec
SelectCodec(contentType) ==
  LET ct == CutParams(contentType) IN
  IF ct = << >> /\ Cardinality(codecs) = 1
  THEN CHOOSE c \in codecs : TRUE
  ELSE IF ToLowerSeq(ct) \in codecs /\ ToLowerSeq(ct) # << >>
  THEN ToLowerSeq(ct)
  ELSE << >>

\* codec selection, codec.NewRequest(r) and codecReq.Method()
ServeCodec(r, in) ==
  /\ ~crashed
  /\ h[r].pc = "codec"
  /\ \E contentType \in in.ContentTypes :
       LET hr == [h[r] EXCEPT !.contentType = contentType,
                              !.codec = SelectCodec(contentType)]
       IN  IF hr.codec = << >>
           THEN Return(r, [hr EXCEPT !.w = writeErrorf(@, 415)])
           ELSE \E cr \in in.NewCodecRequests :
                  IF CodecMethod(cr).err
                  THEN Return(r, [hr EXCEPT
                                    !.codecReq = cr,
                                    !.w = codecWriteError(@, 400, "method")])
                  ELSE h' = [h EXCEPT ![r] =
                               [hr EXCEPT !.codecReq = cr,
                                          !.pc = "getMethod"]]
  /\ UNCHANGED << services, mutex, config, poll, call, task, crashed, ticks,
                  started, adds, got, server, probe, remoteServices >>

\* getMethod up to its read lock: a method without "." returns at once
getMethodSplit(r) ==
  /\ ~crashed
  /\ h[r].pc = "getMethod"
  /\ LET parts == SplitN2(CodecMethod(h[r].codecReq).m, ".") IN
     IF Len(parts) # 2
     THEN /\ h' = [h EXCEPT ![r].pc = "route",
                            ![r].err = "invalid method endpoint given"]
          /\ mutex' = mutex
     ELSE /\ CanRLock(r)
          /\ mutex' = RLock(r)
          /\ h' = [h EXCEPT ![r].pc = "lookup"]
  /\ UNCHANGED << services, config, poll, call, task, crashed, ticks, started,
                  adds, got, server, probe, remoteServices >>

\* the result of the lookup of getMethod: rsrv is set as soon as the
\* service is found, also when the method is not
getMethod(mStr) ==
  LET parts == SplitN2(mStr, ".")
      srvName == parts[1]
      mName == parts[2]
      rsrv == Lookup(srvName)
  IN  IF srvName \notin DOMAIN services
      THEN [rsrv |-> ZeroRemote, m |-> ZeroMethod,
            err |-> "no remote service for given name"]
      ELSE IF mName \notin DOMAIN rsrv.Service.Methods
      THEN [rsrv |-> rsrv, m |-> ZeroMethod,
            err |-> "remote service cannot handle this method"]
      ELSE [rsrv |-> rsrv, m |-> rsrv.Service.Methods[mName], err |-> ""]

\* getMethod under its read lock, and the deferred RUnlock
getMethodLookup(r) ==
  /\ ~crashed
  /\ h[r].pc = "lookup"
  /\ LET g == getMethod(CodecMethod(h[r].codecReq).m) IN
     h' = [h EXCEPT ![r].pc = "route", ![r].rsrv = g.rsrv,
                    ![r].rpcMethod = g.m, ![r].err = g.err]
  /\ mutex' = RUnlock(r)
  /\ UNCHANGED << services, config, poll, call, task, crashed, ticks, started,
                  adds, got, server, probe, remoteServices >>

\* Gateway.GetMethodURL(mStr), called by a goroutine of the program that
\* embeds the gateway: getMethod under its read lock, then
\* g.resolveURL(rsrv.URL) whatever getMethod returned.  resolveURL copies
\* *uu, so the nil URL of the zero remoteService is a nil dereference: the
\* call panics and the process is gone.
GetMethodURL(mStr) ==
  /\ ~crashed
  /\ LET parts == SplitN2(mStr, ".")
         g == IF Len(parts) # 2
              THEN [rsrv |-> ZeroRemote, m |-> ZeroMethod,
                    err |-> "invalid method endpoint given"]
              ELSE getMethod(mStr)
         reg == /\ Len(parts) = 2
                /\ parts[1] \in DOMAIN services
                /\ parts[2] \in DOMAIN services[parts[1]].Service.Methods
     IN  /\ Len(parts) = 2 => CanRLock(Client)
         /\ IF g.rsrv.URL = NilURL
            THEN /\ crashed' = TRUE
                 /\ got' = [called |-> TRUE, mStr |-> mStr,
                            registered |-> reg, url |-> NilURL,
                            err |-> g.err, panicked |-> TRUE]
            ELSE /\ crashed' = crashed
                 /\ \E u \in resolveURL(g.rsrv.URL) :
                      got' = [called |-> TRUE, mStr |-> mStr,
                              registered |-> reg, url |-> u,
                              err |-> g.err, panicked |-> FALSE]
  /\ UNCHANGED << services, mutex, config, poll, h, call, task, ticks, started,
                  adds, server, probe, remoteServices >>

\* ServeRoute as it would be if resolveURL changed the host of the URL it is
\* given, which the entries of the registry point to
ServeRouteResolvesInPlace(r) ==
  /\ ~crashed
  /\ h[r].pc = "route"
  /\ IF h[r].err # "" /\ ~BackupHandler
     THEN /\ Return(r, [h[r] EXCEPT !.w = codecWriteError(@, 400, h[r].err)])
          /\ services' = services
     ELSE \E u \in (IF h[r].rsrv.URL # NilURL
                    THEN resolveURL(h[r].rsrv.URL) ELSE {NilURL}) :
            /\ h' = [h EXCEPT ![r] =
                       [h[r] EXCEPT
                          !.handler = IF h[r].err # "" THEN "BackupHandler"
                                      ELSE "externalHandler",
                          !.req = NewRequest(h[r].codecReq),
                          !.hasReq = TRUE,
                          !.URL = u,
                          !.RequestURI = << >>,
                          !.pc = "callback"]]
            /\ services' =
                 [k \in DOMAIN services |->
                    IF u # NilURL /\ services[k].URL = h[r].rsrv.URL
                    THEN [services[k] EXCEPT !.URL = u] ELSE services[k]]
  /\ UNCHANGED << mutex, config, poll, call, task, crashed, ticks, started,
                  adds, got, server, probe, remoteServices >>

\* ServeRoute as it would be if the return after the 400 were missing
ServeRouteFallsThrough(r) ==
  /\ ~crashed
  /\ h[r].pc = "route"
  /\ \E u \in (IF h[r].rsrv.URL # NilURL
               THEN resolveURL(h[r].rsrv.URL) ELSE {NilURL}) :
       h' = [h EXCEPT ![r] =
               [h[r] EXCEPT
                  !.w = IF h[r].err # "" /\ ~BackupHandler
                        THEN codecWriteError(@, 400, h[r].err) ELSE @,
                  !.handler = IF h[r].err # "" THEN "BackupHandler"
                              ELSE "externalHandler",
                  !.req = NewRequest(h[r].codecReq),
                  !.hasReq = TRUE,
                  !.URL = u,
                  !.RequestURI = << >>,
                  !.pc = "callback"]]
  /\ UNCHANGED << services, mutex, config, poll, call, task, crashed, ticks,
                  started, adds, got, server, probe, remoteServices >>

\* ServeRoute as it would be if every routed request went to externalHandler
ServeRouteAlwaysExternal(r) ==
  /\ ~crashed
  /\ h[r].pc = "route"
  /\ IF h[r].err # "" /\ ~BackupHandler
     THEN Return(r, [h[r] EXCEPT !.w = codecWriteError(@, 400, h[r].err)])
     ELSE \E u \in (IF h[r].rsrv.URL # NilURL
                    THEN resolveURL(h[r].rsrv.URL) ELSE {NilURL}) :
            h' = [h EXCEPT ![r] =
                    [h[r] EXCEPT
                       !.handler = "externalHandler",
                       !.req = NewRequest(h[r].codecReq),
                       !.hasReq = TRUE,
                       !.URL = u,
                       !.RequestURI = << >>,
                       !.pc = "callback"]]
  /\ UNCHANGED << services, mutex, config, poll, call, task, crashed, ticks,
                  started, adds, got, server, probe, remoteServices >>

\* ServeRoute as it would be without r.RequestURI = ""
ServeRouteKeepsURI(r) ==
  /\ ~crashed
  /\ h[r].pc = "route"
  /\ IF h[r].err # "" /\ ~BackupHandler
     THEN Return(r, [h[r] EXCEPT !.w = codecWriteError(@, 400, h[r].err)])
     ELSE \E u \in (IF h[r].rsrv.URL # NilURL
                    THEN resolveURL(h[r].rsrv.URL) ELSE {NilURL}) :
            h' = [h EXCEPT ![r] =
                    [h[r] EXCEPT
                       !.handler = IF h[r].err # "" THEN "BackupHandler"
                                   ELSE "externalHandler",
                       !.req = NewRequest(h[r].codecReq),
                       !.hasReq = TRUE,
                       !.URL = u,
                       !.pc = "callback"]]
  /\ UNCHANGED << services, mutex, config, poll, call, task, crashed, ticks,
                  started, adds, got, server, probe, remoteServices >>

\* ServeRoute as it would be without r.URL = g.resolveURL(rsrv.URL)
ServeRouteKeepsRequestURL(r) ==
  /\ ~crashed
  /\ h[r].pc = "route"
  /\ IF h[r].err # "" /\ ~BackupHandler
     THEN Return(r, [h[r] EXCEPT !.w = codecWriteError(@, 400, h[r].err)])
     ELSE \E u \in (IF h[r].rsrv.URL # NilURL
                    THEN resolveURL(h[r].rsrv.URL) ELSE {NilURL}) :
            h' = [h EXCEPT ![r] =
                    [h[r] EXCEPT
                       !.handler = IF h[r].err # "" THEN "BackupHandler"
                                   ELSE "externalHandler",
                       !.req = NewRequest(h[r].codecReq),
                       !.hasReq = TRUE,
                       !.RequestURI = << >>,
                       !.pc = "callback"]]
  /\ UNCHANGED << services, mutex, config, poll, call, task, crashed, ticks,
                  started, adds, got, server, probe, remoteServices >>

\* the choice of the target handler, the Request and the URL of the
\* forwarded request
ServeRoute(r) ==
  /\ ~crashed
  /\ h[r].pc = "route"
  /\ IF h[r].err # "" /\ ~BackupHandler
     THEN Return(r, [h[r] EXCEPT !.w = codecWriteError(@, 400, h[r].err)])
     ELSE \E u \in (IF h[r].rsrv.URL # NilURL
                    THEN resolveURL(h[r].rsrv.URL) ELSE {NilURL}) :
            h' = [h EXCEPT ![r] =
                    [h[r] EXCEPT
                       !.handler = IF h[r].err # "" THEN "BackupHandler"
                                   ELSE "externalHandler",
                       !.req = NewRequest(h[r].codecReq),
                       !.hasReq = TRUE,
                       !.URL = u,
                       !.RequestURI = << >>,
                       !.pc = "callback"]]
  /\ UNCHANGED << services, mutex, config, poll, call, task, crashed, ticks,
                  started, adds, got, server, probe, remoteServices >>

\* ServeCallback as it would be if only forwarded requests were shown to
\* the callback
ServeCallbackOnlyForwarded(r, in) ==
  /\ ~crashed
  /\ h[r].pc = "callback"
  /\ IF RequestCallback /\ h[r].handler = "externalHandler"
     THEN \E run \in in.CbRuns :
            LET q == ApplyRun(h[r].req, run) IN
            h' = [h EXCEPT ![r].req = q, ![r].codecReq = q.codecReq,
                           ![r].w = q.respWriter,
                           ![r].cbCalls = @ + 1, ![r].pc = "dispatch"]
     ELSE h' = [h EXCEPT ![r].pc = "dispatch"]
  /\ UNCHANGED << services, mutex, config, poll, call, task, crashed, ticks,
                  started, adds, got, server, probe, remoteServices >>

\* g.RequestCallback(req), when there is a callback
ServeCallback(r, in) ==
  /\ ~crashed
  /\ h[r].pc = "callback"
  /\ IF RequestCallback
     THEN \E run \in in.CbRuns :
            LET q == ApplyRun(h[r].req, run) IN
            h' = [h EXCEPT ![r].req = q, ![r].codecReq = q.codecReq,
                           ![r].w = q.respWriter,
                           ![r].cbCalls = @ + 1, ![r].pc = "dispatch"]
     ELSE h' = [h EXCEPT ![r].pc = "dispatch"]
  /\ UNCHANGED << services, mutex, config, poll, call, task, crashed, ticks,
                  started, adds, got, server, probe, remoteServices >>

\* ServeDispatch as it would be without the test of req.responded
ServeDispatchForwardsAnyway(r) ==
  /\ ~crashed
  /\ h[r].pc = "dispatch"
  /\ LET c == getClientRequest(h[r].req) IN
     IF c.err
     THEN Return(r, [h[r] EXCEPT
                       !.req = c.q,
                       !.w = codecWriteError(@, 500, "encode")])
     ELSE h' = [h EXCEPT ![r] =
                  [h[r] EXCEPT
                     !.req = c.q,
                     !.Body = c.b,
                     !.sent = Append(@, [to |-> h[r].handler,
                                         URL |-> h[r].URL, Body |-> c.b]),
                     !.pc = "reframe"]]
  /\ UNCHANGED << services, mutex, config, poll, call, task, crashed, ticks,
                  started, adds, got, server, probe, remoteServices >>

\* after the callback: return if it responded, else build the outgoing
\* envelope and hand the request to the target handler
ServeDispatch(r) ==
  /\ ~crashed
  /\ h[r].pc = "dispatch"
  /\ LET c == getClientRequest(h[r].req) IN
     IF h[r].req.responded THEN Return(r, h[r])
     ELSE IF c.err
     THEN Return(r, [h[r] EXCEPT
                       !.req = c.q,
                       !.w = codecWriteError(@, 500, "encode")])
     ELSE h' = [h EXCEPT ![r] =
                  [h[r] EXCEPT
                     !.req = c.q,
                     !.Body = c.b,
                     !.sent = Append(@, [to |-> h[r].handler,
                                         URL |-> h[r].URL, Body |-> c.b]),
                     !.pc = "reframe"]]
  /\ UNCHANGED << services, mutex, config, poll, call, task, crashed, ticks,
                  started, adds, got, server, probe, remoteServices >>

\* what happens at the target handler: the upstream answers with a reply,
\* or http.DefaultClient.Do fails (always for a nil URL); rec is what the
\* handler leaves in the recorder.  The BackupHandler writes its reply into
\* the recorder itself.
Outcomes(handler, URL, replies) ==
  IF handler = "externalHandler"
  THEN { [upstream |-> TransportFailed, rec |-> ExternalFailed] } \cup
       (IF URL = NilURL THEN {}
        ELSE { [upstream |-> Replied(reply), rec |-> ExternalCopied(reply)] :
                 reply \in replies })
  ELSE { [upstream |-> Replied(reply),
          rec |-> [Code |-> reply.status, Body |-> reply.body]] :
           reply \in replies }

\* what the target handler leaves in the recorder
Recorded(handler, URL, replies) ==
  { o.rec : o \in Outcomes(handler, URL, replies) }

\* ServeReframe as it would be if a reply that does not decode were dropped
ServeReframeDropsError(r, in) ==
  /\ ~crashed
  /\ h[r].pc = "reframe"
  /\ \E o \in Outcomes(h[r].handler, h[r].URL, in.UpstreamReplies) :
       LET rec == o.rec
           d == DecodeClientResponse(rec.Body)
       IN  Return(r, [h[r] EXCEPT
                        !.rec = rec,
                        !.upstream = o.upstream,
                        !.w = IF d.err THEN @
                              ELSE codecWriteResponse(@, d.result)])
  /\ UNCHANGED << services, mutex, config, poll, call, task, crashed, ticks,
                  started, adds, got, server, probe, remoteServices >>

\* handler.ServeHTTP(rec, r) has returned: the recorded reply is decoded and
\* written to the client through the codec request
ServeReframe(r, in) ==
  /\ ~crashed
  /\ h[r].pc = "reframe"
  /\ \E o \in Outcomes(h[r].handler, h[r].URL, in.UpstreamReplies) :
       LET rec == o.rec
           d == DecodeClientResponse(rec.Body)
       IN  Return(r, [h[r] EXCEPT
                        !.rec = rec,
                        !.upstream = o.upstream,
                        !.w = IF d.err THEN codecWriteError(@, rec.Code, d.e)
                              ELSE codecWriteResponse(@, d.result)])
  /\ UNCHANGED << services, mutex, config, poll, call, task, crashed, ticks,
                  started, adds, got, server, probe, remoteServices >>

\* the goroutine of a finished invocation is gone; the next request gets a
\* fresh one
ServeNext(r) ==
  /\ ~crashed
  /\ h[r].pc = "done"
  /\ started < MaxRequests
  /\ h' = [h EXCEPT ![r] = IdleHandler]
  /\ UNCHANGED << services, mutex, config, poll, call, task, crashed, ticks,
                  started, adds, got, server, probe, remoteServices >>

(***************************************************************************)
(* The Go runtime aborts the process ("concurrent map writes", "concurrent *)
(* map read and map write") when it notices that a write of the map        *)
(* overlaps another access; it does not always notice.                     *)
(***************************************************************************)
InWrite(p) == call[p].pc \in {"store", "store2"}
InRead(r) == h[r].pc = "lookup"

RuntimeFatal ==
  /\ ~crashed
  /\ \E p \in Callers :
       /\ InWrite(p)
       /\ \/ \E p2 \in Callers \ {p} : InWrite(p2)
          \/ \E r \in Handlers : InRead(r)
  /\ crashed' = TRUE
  /\ UNCHANGED << services, mutex, config, poll, h, call, task, ticks, started,
                  adds, got, server, probe, remoteServices >>

\* the steps of the registry: AddURL, the refresh tasks and the ticks
RegistryNext ==
  \/ \E u \in URLInputs : AddURL(u)
  \/ \E p \in Callers :
       \/ AddURLLock(p)
       \/ AddURLStoreService(p)
       \/ AddURLStoreURL(p)
       \/ AddURLUnlock(p)
  \/ \E t \in Tasks :
       \/ refreshSnapshot(t)
       \/ refreshAddURL(t)
       \/ refreshDone(t)
  \/ Tick
  \/ RuntimeFatal

\* the steps of an invocation of ServeHTTP but the select on g.poll
ServeNextStep(r, in) ==
  \/ ServeCheckMethod(r, in)
  \/ ServeCodec(r, in)
  \/ getMethodSplit(r)
  \/ getMethodLookup(r)
  \/ ServeRoute(r)
  \/ ServeCallback(r, in)
  \/ ServeDispatch(r)
  \/ ServeReframe(r, in)
  \/ ServeNext(r)

(***************************************************************************)
(* The introspection Server: Go types as reflect presents them, the type   *)
(* descriptors of gatewaytypes and the schema extractor.                   *)
(***************************************************************************)
\* reflect.Kind, by number
KindBool == 1
KindInt == 2
KindFloat64 == 14
KindComplex128 == 16
KindArray == 17
KindChan == 18
KindFunc == 19
KindInterface == 20
KindMap == 21
KindPtr == 22
KindSlice == 23
KindString == 24
KindStruct == 25

\* a reflect.Type: its Kind, Name and PkgPath, its Elem and Key (none, or
\* one type) and its fields in textual order
GoType(kind, name, pkg, elem, key, fields) ==
  [kind |-> kind, Name |-> name, PkgPath |-> pkg, Elem |-> elem, Key |-> key,
   Field |-> fields]

\* a reflect.StructField; Tag is the value of the json key of the tag
StructField(name, tag, anonymous, type) ==
  [Name |-> name, Tag |-> tag, Anonymous |-> anonymous, Type |-> type]

Builtin(kind, name) == GoType(kind, name, << >>, << >>, << >>, << >>)
PtrTo(t) == GoType(KindPtr, << >>, << >>, << t >>, << >>, << >>)
SliceOf(t) == GoType(KindSlice, << >>, << >>, << t >>, << >>, << >>)
ArrayOf(t) == GoType(KindArray, << >>, << >>, << t >>, << >>, << >>)
MapOf(k, t) == GoType(KindMap, << >>, << >>, << t >>, << k >>, << >>)
ChanOf(t) == GoType(KindChan, << >>, << >>, << t >>, << >>, << >>)
StructOf(name, pkg, fields) ==
  GoType(KindStruct, name, pkg, << >>, << >>, fields)
\* a defined type: t under a name of package main
Named(name, t) == [t EXCEPT !.Name = name, !.PkgPath = << "main" >>]

TBool == Builtin(KindBool, << "b", "ool" >>)
TInt == Builtin(KindInt, << "i", "nt" >>)
TFloat64 == Builtin(KindFloat64, << "f", "loat64" >>)
TString == Builtin(KindString, << "s", "tring" >>)
TComplex128 == Builtin(KindComplex128, << "c", "omplex128" >>)
TFunc == Builtin(KindFunc, << >>)
TChan == ChanOf(TInt)
\* struct{}
TEmptyStruct == StructOf(<< >>, << >>, << >>)
\* a typed interface: fmt.Stringer
TStringer ==
  GoType(KindInterface, << "S", "tringer" >>, << "fmt" >>, << >>, << >>, << >>)

typeOfError == Builtin(KindInterface, << "e", "rror" >>)
typeOfRequest == StructOf(<< "R", "equest" >>, << "net/http" >>, << >>)
typeOfEmptyInterface == Builtin(KindInterface, << >>)

\* the upper case letters (unicode.IsUpper on the runes the names use)
Upper ==
  { "A", "B", "C", "D", "E", "F", "G", "H", "I", "J", "K", "L", "M", "N",
    "O", "P", "Q", "R", "S", "T", "U", "V", "W", "X", "Y", "Z" }

\* isExported: the first rune of the name is upper case
isExported(name) == Len(name) > 0 /\ name[1] \in Upper

\* isExportedOrBuiltin: all pointers are followed first
RECURSIVE isExportedOrBuiltin(_)
isExportedOrBuiltin(t) ==
  IF t.kind = KindPtr THEN isExportedOrBuiltin(t.Elem[1])
  ELSE isExported(t.Name) \/ t.PkgPath = << >>

\* getFieldKey: the first segment of the json tag if it is not empty, else
\* the declared name
getFieldKey(f) ==
  IF f.Tag = << >> THEN f.Name
  ELSE LET parts == SplitN2(f.Tag, ",") IN
       IF parts[1] = << >> THEN f.Name ELSE parts[1]

\* a map[string]*Type: nil or made, and its entries
NilObject == [nil |-> TRUE, kv |-> {}]
MadeObject(kv) == [nil |-> FALSE, kv |-> kv]
\* m[k] = v
ObjectPut(kv, k, v) == { e \in kv : e.k # k } \cup { [k |-> k, v |-> v] }
\* for k, v := range from { m[k] = v }
ObjectMerge(kv, from) ==
  { e \in kv : \A g \in from : g.k # e.k } \cup from
ObjectKeys(kv) == { e.k : e \in kv }
ObjectGet(kv, k) == (CHOOSE e \in kv : e.k = k).v

\* gatewaytypes.Type; a *Type field is << >> when nil
Type(typeOf, arrayOf, objectOf, mapOf) ==
  [TypeOf |-> typeOf, ArrayOf |-> arrayOf, ObjectOf |-> objectOf,
   MapOf |-> mapOf]
ZeroType == Type(0, << >>, NilObject, << >>)
ScalarType(kind) == Type(kind, << >>, NilObject, << >>)
ArrayType(inner) == Type(0, << inner >>, NilObject, << >>)
MapType(inner) == Type(0, << >>, NilObject, << inner >>)
ObjectType(kv) == Type(0, << >>, MadeObject(kv), << >>)

\* what processType returns: a *Type and an error
Walked(typ) == [err |-> FALSE, typ |-> typ]
WalkFailed == [err |-> TRUE, typ |-> ZeroType]

\* processType; processFields is the loop over the fields of a struct from
\* field i on, m the map built so far.  FlattensAnonymous is the condition
\* of line 199.
FlattensAnonymous(f, innerT) ==
  f.Anonymous /\ Cardinality(innerT.ObjectOf.kv) > 0

\* a map whose key is not of kind string is not supported
AnyKeyed(t) == TRUE

StringKeyed(t) == t.Key[1].kind = KindString

RECURSIVE processType(_)
RECURSIVE processFields(_, _, _)
processFields(t, i, m) ==
  IF i > Len(t.Field) THEN Walked(ObjectType(m))
  ELSE LET f == t.Field[i] IN
       IF ~isExported(f.Name) THEN processFields(t, i + 1, m)
       ELSE LET key == getFieldKey(f)
                inner == processType(f.Type)
            IN  IF inner.err THEN WalkFailed
                ELSE IF FlattensAnonymous(f, inner.typ)
                THEN processFields(t, i + 1,
                                   ObjectMerge(m, inner.typ.ObjectOf.kv))
                ELSE processFields(t, i + 1, ObjectPut(m, key, inner.typ))

processType(t0) ==
  LET t == IF t0.kind = KindPtr THEN t0.Elem[1] ELSE t0
      kind == t.kind
  IN  IF (kind >= KindBool /\ kind <= KindFloat64) \/ kind = KindString
      THEN Walked(ScalarType(kind))
      ELSE IF kind = KindArray \/ kind = KindSlice
      THEN LET inner == processType(t.Elem[1]) IN
           IF inner.err THEN WalkFailed ELSE Walked(ArrayType(inner.typ))
      ELSE IF kind = KindMap
      THEN IF ~StringKeyed(t) THEN WalkFailed
           ELSE LET inner == processType(t.Elem[1]) IN
                IF inner.err THEN WalkFailed ELSE Walked(MapType(inner.typ))
      ELSE IF kind = KindInterface
      THEN IF t # typeOfEmptyInterface THEN WalkFailed
           ELSE Walked(ScalarType(kind))
      ELSE IF kind = KindStruct
      THEN processFields(t, 1, {})
      ELSE WalkFailed

\* a JSON value: a number or an object with its members
JNumber(n) == [t |-> "number", n |-> n, o |-> {}]
JObject(members) == [t |-> "object", n |-> 0, o |-> members]
Member(k, v) == [k |-> k, v |-> v]
HasMember(j, k) == \E e \in j.o : e.k = k

\* json.Marshal of a Type: every field is omitempty, so a zero TypeOf, a nil
\* *Type and a map of length 0 are left out
RECURSIVE MarshalType(_)
MarshalType(typ) ==
  JObject(
    (IF typ.TypeOf # 0
     THEN { Member(<< "typeOf" >>, JNumber(typ.TypeOf)) } ELSE {})
    \cup
    (IF typ.ArrayOf # << >>
     THEN { Member(<< "arrayOf" >>, MarshalType(typ.ArrayOf[1])) } ELSE {})
    \cup
    (IF Cardinality(typ.ObjectOf.kv) > 0
     THEN { Member(<< "objectOf" >>,
                   JObject({ Member(e.k, MarshalType(e.v)) :
                             e \in typ.ObjectOf.kv })) }
     ELSE {})
    \cup
    (IF typ.MapOf # << >>
     THEN { Member(<< "mapOf" >>, MarshalType(typ.MapOf[1])) } ELSE {}))

\* json.Unmarshal into a zero Type: a field stays zero unless its member is
\* there
RECURSIVE UnmarshalType(_)
UnmarshalType(j) ==
  Type(
    IF HasMember(j, << "typeOf" >>)
    THEN ObjectGet(j.o, << "typeOf" >>).n ELSE 0,
    IF HasMember(j, << "arrayOf" >>)
    THEN << UnmarshalType(ObjectGet(j.o, << "arrayOf" >>)) >> ELSE << >>,
    IF HasMember(j, << "objectOf" >>)
    THEN MadeObject({ Member(e.k, UnmarshalType(e.v)) :
                      e \in ObjectGet(j.o, << "objectOf" >>).o })
    ELSE NilObject,
    IF HasMember(j, << "mapOf" >>)
    THEN << UnmarshalType(ObjectGet(j.o, << "mapOf" >>)) >> ELSE << >>)

(***************************************************************************)
(* The types the extractor is given.                                       *)
(***************************************************************************)
\* the types of the tests
FooArgs ==
  Named(<< "F", "ooArgs" >>,
        StructOf(<< >>, << >>,
                 << StructField(<< "A" >>, << "a" >>, FALSE, TInt),
                    StructField(<< "B" >>, << "b" >>, FALSE, TString) >>))
BazArgs ==
  Named(<< "B", "azArgs" >>,
        StructOf(<< >>, << >>,
                 << StructField(<< "A", "A" >>, << "aa" >>, FALSE, TInt) >>))
\* an embedded field is named after its type
Embedded(t, tag) ==
  StructField(IF t.kind = KindPtr THEN t.Elem[1].Name ELSE t.Name, tag, TRUE,
              t)
FooRes ==
  Named(<< "F", "ooRes" >>,
        StructOf(<< >>, << >>,
                 << StructField(<< "F", "ooArgs" >>, << "args" >>, FALSE,
                                FooArgs) >>))
FooAnonRes ==
  Named(<< "F", "ooAnonRes" >>,
        StructOf(<< >>, << >>, << Embedded(FooArgs, << "args" >>) >>))
BarArgs ==
  Named(<< "B", "arArgs" >>,
        StructOf(<< >>, << >>,
                 << StructField(<< "A" >>, << "a" >>, FALSE, TInt),
                    StructField(<< "B" >>, << "b" >>, FALSE, SliceOf(TInt)),
                    StructField(<< "C" >>, << "c" >>, FALSE, SliceOf(FooArgs)),
                    StructField(<< "D" >>, << "d" >>, FALSE,
                                MapOf(TString, typeOfEmptyInterface)),
                    Embedded(BazArgs, << >>) >>))
\* further defined types: a struct without fields, an unexported struct, a
\* map and a struct with a channel
Empty == Named(<< "E", "mpty" >>, TEmptyStruct)
inner ==
  Named(<< "i", "nner" >>,
        StructOf(<< >>, << >>,
                 << StructField(<< "A" >>, << "a" >>, FALSE, TInt) >>))
Dict == Named(<< "D", "ict" >>, MapOf(TString, TInt))
ChanArgs ==
  Named(<< "C", "hanArgs" >>,
        StructOf(<< >>, << >>,
                 << StructField(<< "C" >>, << "c" >>, FALSE, TChan) >>))

Leaf ==
  { TBool, TInt, TFloat64, TString, TComplex128, TFunc, TChan, TStringer,
    typeOfEmptyInterface, TEmptyStruct }

\* one more layer around the types of S
Wrap(S) ==
  { SliceOf(t) : t \in S } \cup { ArrayOf(t) : t \in S }
  \cup { MapOf(TString, t) : t \in S } \cup { MapOf(TInt, t) : t \in S }
  \cup { PtrTo(t) : t \in S }

RECURSIVE WrapN(_, _)
WrapN(S, n) == IF n = 0 THEN S ELSE S \cup Wrap(WrapN(S, n - 1))

FieldTypes ==
  Leaf \cup { SliceOf(TInt), SliceOf(TChan), MapOf(TString, TEmptyStruct),
              MapOf(TInt, TInt), FooArgs, Empty }

\* the fields a struct is made of: tagged, untagged, unexported and embedded
FieldSet ==
  { StructField(<< "A" >>, << "a" >>, FALSE, t) : t \in FieldTypes }
  \cup
  { StructField(<< "B" >>, << >>, FALSE, TInt),
    StructField(<< "B" >>, << "a" >>, FALSE, TString),
    StructField(<< "B" >>, << ",", "omitempty" >>, FALSE, TInt),
    StructField(<< "B" >>, << "b", ",", "omitempty" >>, FALSE, TInt),
    StructField(<< "c" >>, << >>, FALSE, TChan),
    StructField(<< "c" >>, << "a" >>, FALSE, TInt) }
  \cup
  { Embedded(t, tag) :
      t \in { FooArgs, PtrTo(FooArgs), BazArgs, Empty, inner, Dict,
              ChanArgs },
      tag \in { << >>, << "a" >> } }

SeqsUpTo(S, n) == UNION { [1..k -> S] : k \in 0..n }

Structs ==
  { Named(<< "T" >>, StructOf(<< >>, << >>, fields)) :
      fields \in SeqsUpTo(FieldSet, MaxFields) }

GoTypes ==
  WrapN(Leaf \cup Structs \cup { FooArgs, FooRes, FooAnonRes, BarArgs },
        MaxDepth)

(***************************************************************************)
(* Receivers and their methods.                                            *)
(***************************************************************************)
\* a reflect.Method: PkgPath is empty for an exported method, In starts
\* with the receiver
reflectMethod(name, pkg, ins, outs) ==
  [Name |-> name, PkgPath |-> pkg, In |-> ins, Out |-> outs]

TestEndpoint == Named(<< "T", "estEndpoint" >>, TEmptyStruct)
\* the same under a name that is not exported
endpoint == Named(<< "e", "ndpoint" >>, TEmptyStruct)

\* func (t T) name(r *http.Request, args A, reply R) error
Handler(name, args, reply) ==
  reflectMethod(name, << >>,
                << TestEndpoint, PtrTo(typeOfRequest), args, reply >>,
                << typeOfError >>)

\* the methods a receiver may have, in the order reflect lists them (by
\* name): the handlers of the tests, handlers whose types do not walk, and
\* one method for every condition of the filter
MethodPool ==
  << Handler(<< "B", "ar" >>, PtrTo(BarArgs), PtrTo(TEmptyStruct)),
     Handler(<< "C", "han" >>, PtrTo(FooArgs), PtrTo(ChanArgs)),
     Handler(<< "F", "oo" >>, PtrTo(FooArgs), PtrTo(FooRes)),
     Handler(<< "F", "ooAnon" >>, PtrTo(FooArgs), PtrTo(FooAnonRes)),
     Handler(<< "I", "nner" >>, PtrTo(inner), PtrTo(FooRes)),
     Handler(<< "N", "oPtr" >>, FooArgs, PtrTo(FooRes)),
     reflectMethod(<< "N", "otErr" >>, << >>,
                   << TestEndpoint, PtrTo(typeOfRequest), PtrTo(FooArgs),
                      PtrTo(FooRes) >>,
                   << TInt >>),
     reflectMethod(<< "N", "otReq" >>, << >>,
                   << TestEndpoint, PtrTo(FooArgs), PtrTo(FooArgs),
                      PtrTo(FooRes) >>,
                   << typeOfError >>),
     Handler(<< "P", "trPtr" >>, PtrTo(PtrTo(FooArgs)), PtrTo(FooRes)),
     Handler(<< "R", "eplyInner" >>, PtrTo(FooArgs), PtrTo(inner)),
     reflectMethod(<< "T", "woOut" >>, << >>,
                   << TestEndpoint, PtrTo(typeOfRequest), PtrTo(FooArgs),
                      PtrTo(FooRes) >>,
                   << TInt, typeOfError >>),
     reflectMethod(<< "W", "at" >>, << >>, << TestEndpoint, TInt, TInt >>,
                   << >>),
     reflectMethod(<< "f", "oo" >>, << "main" >>,
                   << TestEndpoint, PtrTo(typeOfRequest), PtrTo(FooArgs),
                      PtrTo(FooRes) >>,
                   << typeOfError >>) >>

\* the elements of s at the indices of I, in the order of s
RECURSIVE Pick(_, _, _)
Pick(s, I, i) ==
  IF i > Len(s) THEN << >>
  ELSE IF i \in I THEN << s[i] >> \o Pick(s, I, i + 1)
  ELSE Pick(s, I, i + 1)

\* a receiver value: its type and its method set
Rcvr(type, methods) == [Type |-> type, Methods |-> methods]

Receivers ==
  { Rcvr(type, Pick(MethodPool, I, 1)) :
      type \in { TestEndpoint, endpoint },
      I \in { J \in SUBSET (1..Len(MethodPool)) :
                Cardinality(J) <= MaxMethods } }

\* the names RegisterService is given: none, a name of its own, or the name
\* of the built-in service
ServiceNames == { << >>, << "S", "vc" >>, << "R", "PC" >> }

getName(rcv, name) ==
  IF name # << >> THEN [err |-> FALSE, name |-> name]
  ELSE LET t == IF rcv.Type.kind = KindPtr THEN rcv.Type.Elem[1]
                ELSE rcv.Type
       IN  IF ~isExported(t.Name) THEN [err |-> TRUE, name |-> << >>]
           ELSE [err |-> FALSE, name |-> t.Name]

\* the condition under which getMethods keeps a method
AcceptsAnyResult(method) ==
  /\ method.PkgPath = << >>
  /\ Len(method.In) = 4
  /\ method.In[2].kind = KindPtr /\ method.In[2].Elem[1] = typeOfRequest
  /\ method.In[3].kind = KindPtr /\ isExportedOrBuiltin(method.In[3])
  /\ method.In[4].kind = KindPtr /\ isExportedOrBuiltin(method.In[4])

Accepts(method) ==
  /\ method.PkgPath = << >>
  /\ Len(method.In) = 4
  /\ method.In[2].kind = KindPtr /\ method.In[2].Elem[1] = typeOfRequest
  /\ method.In[3].kind = KindPtr /\ isExportedOrBuiltin(method.In[3])
  /\ method.In[4].kind = KindPtr /\ isExportedOrBuiltin(method.In[4])
  /\ Len(method.Out) = 1
  /\ method.Out[1] = typeOfError

RECURSIVE getMethodsFrom(_, _)
getMethodsFrom(methods, i) ==
  IF i > Len(methods) THEN << >>
  ELSE IF Accepts(methods[i])
  THEN << methods[i] >> \o getMethodsFrom(methods, i + 1)
  ELSE getMethodsFrom(methods, i + 1)

getMethods(rcv) == getMethodsFrom(rcv.Methods, 1)

\* gatewaytypes.Method and gatewaytypes.Service; Methods is a map, kept as
\* its entries
SchemaMethod(name, args, returns) ==
  [Name |-> name, Args |-> args, Returns |-> returns]
SchemaService(name, methods) == [Name |-> name, Methods |-> methods]

\* RegisterService of the rpc.Server underneath: the service needs a name,
\* at least one method of suitable type, and a name not yet taken
rpcRegisterService(rpc, rcv, name) ==
  LET t == IF rcv.Type.kind = KindPtr THEN rcv.Type.Elem[1] ELSE rcv.Type
      n == IF name = << >> THEN t.Name ELSE name
  IN  IF \/ name = << >> /\ ~isExported(n)
         \/ n = << >>
         \/ getMethods(rcv) = << >>
         \/ n \in rpc
      THEN [err |-> TRUE, rpc |-> rpc]
      ELSE [err |-> FALSE, rpc |-> rpc \cup { n }]

\* the loop of RegisterService over the accepted methods, from method i on:
\* the first type that does not walk ends it
RECURSIVE registerMethods(_, _, _)
registerMethods(methods, i, acc) ==
  IF i > Len(methods) THEN [err |-> FALSE, Methods |-> acc]
  ELSE LET method == methods[i]
           args == processType(method.In[3])
           res == processType(method.In[4])
       IN  IF args.err \/ res.err THEN [err |-> TRUE, Methods |-> {}]
           ELSE registerMethods(methods, i + 1,
                  ObjectPut(acc, method.Name,
                            SchemaMethod(method.Name, args.typ, res.typ)))

\* the Server after NewServer: no services, and RPC registered with the
\* rpc.Server
NewServer == [services |-> << >>, rpc |-> { << "R", "PC" >> }]

\* a call of RegisterService and its return
Called(rcv, name, err) ==
  [op |-> "RegisterService", rcv |-> rcv, name |-> name, err |-> err,
   calls |-> probe.calls + 1,
   log |-> IF err THEN probe.log
           ELSE Append(probe.log, [rcv |-> rcv, name |-> name])]

\* the return with the error of a type walk: the rpc.Server has the service,
\* the list does not
RegisterServiceKeepsPartial(rcv, name, reg) ==
  /\ server' = [services |->
                  Append(server.services, SchemaService(name, {})),
                rpc |-> reg.rpc]
  /\ probe' = Called(rcv, name, TRUE)

RegisterServiceReturnsError(rcv, name, reg) ==
  /\ server' = [server EXCEPT !.rpc = reg.rpc]
  /\ probe' = Called(rcv, name, TRUE)

\* the return without error: the service is appended to the list
RegisterServicePrepends(rcv, name, reg, n, walked) ==
  /\ server' = [services |->
                  << SchemaService(n.name, walked.Methods) >>
                  \o server.services,
                rpc |-> reg.rpc]
  /\ probe' = Called(rcv, name, FALSE)

RegisterServiceAppends(rcv, name, reg, n, walked) ==
  /\ server' = [services |->
                  Append(server.services,
                         SchemaService(n.name, walked.Methods)),
                rpc |-> reg.rpc]
  /\ probe' = Called(rcv, name, FALSE)

RegisterService(rcv, name) ==
  /\ probe.op \in { "", "RegisterService", "GetServices" }
  /\ probe.calls < MaxRegister
  /\ LET reg == rpcRegisterService(server.rpc, rcv, name)
         n == getName(rcv, name)
         walked == registerMethods(getMethods(rcv), 1, {})
     IN  IF reg.err
         THEN /\ server' = server
              /\ probe' = Called(rcv, name, TRUE)
         ELSE IF n.err \/ walked.err
         THEN RegisterServiceReturnsError(rcv, name, reg)
         ELSE RegisterServiceAppends(rcv, name, reg, n, walked)
  /\ UNCHANGED << services, mutex, config, poll, h, call, task, crashed, ticks,
                  started, adds, got, remoteServices >>

\* RPC.GetServices: the list as it is
ServerGetServices ==
  /\ probe.op \in { "", "RegisterService" }
  /\ probe' = [op |-> "GetServices", res |-> server.services,
               calls |-> probe.calls, log |-> probe.log]
  /\ UNCHANGED << services, mutex, config, poll, h, call, task, crashed, ticks,
                  started, adds, got, server, remoteServices >>

(***************************************************************************)
(* The extractor applied: a type is walked, the descriptor is encoded and  *)
(* decoded again.                                                          *)
(***************************************************************************)
\* nothing was called yet
NoProbe == [op |-> "", calls |-> 0, log |-> << >>]

\* processType(t)
WalkType(t) ==
  /\ probe.op = ""
  /\ probe' = [op |-> "processType", t |-> t, out |-> processType(t)]
  /\ UNCHANGED << services, mutex, config, poll, h, call, task, crashed, ticks,
                  started, adds, got, server, remoteServices >>

\* json.Marshal of the descriptor
EncodeType ==
  /\ probe.op = "processType"
  /\ ~probe.out.err
  /\ probe' = [op |-> "Marshal", t |-> probe.t, out |-> probe.out,
               wire |-> MarshalType(probe.out.typ)]
  /\ UNCHANGED << services, mutex, config, poll, h, call, task, crashed, ticks,
                  started, adds, got, server, remoteServices >>

\* json.Unmarshal of the wire form
DecodeType ==
  /\ probe.op = "Marshal"
  /\ probe' = [op |-> "Unmarshal", t |-> probe.t, out |-> probe.out,
               wire |-> probe.wire, back |-> UnmarshalType(probe.wire)]
  /\ UNCHANGED << services, mutex, config, poll, h, call, task, crashed, ticks,
                  started, adds, got, server, remoteServices >>

(***************************************************************************)
(* SpecSchema: the schema extractor and the wire form of its descriptors,  *)
(* one type at a time.                                                     *)
(***************************************************************************)
NextSchema ==
  \/ \E t \in GoTypes : WalkType(t)
  \/ EncodeType
  \/ DecodeType

(***************************************************************************)
(* SpecServer: services are registered with the introspection Server and   *)
(* RPC.GetServices is called.                                              *)
(***************************************************************************)
NextServer ==
  \/ \E rcv \in Receivers, name \in ServiceNames : RegisterService(rcv, name)
  \/ ServerGetServices

(***************************************************************************)
(* The ServiceList of the GatewayServer: the remote services a gateway     *)
(* server has imported, by service name.                                   *)
(***************************************************************************)
\* a *RemoteService of the GatewayServer: a service and the url of its
\* backend
Imported(srv, ustr) == [Service |-> srv, url |-> ustr]

\* no call of the list so far
NoImport ==
  [op |-> "", serv |-> << >>, overwrite |-> FALSE, fetched |-> FALSE,
   err |-> FALSE]

\* ServiceList{}: the map is nil until add makes it
NewServiceList ==
  [Services |-> << >>, made |-> FALSE, calls |-> 0, last |-> NoImport]

\* a name of the given services is a key of the map
AlreadyExists(m, svs) ==
  \E i \in 1..Len(svs) : svs[i].Service.Name \in DOMAIN m

\* the loop that adds the services: s.Services[v.Name] = v
RECURSIVE AddAll(_, _)
AddAll(m, svs) ==
  IF svs = << >> THEN m
  ELSE AddAll(MapSet(m, Head(svs).Service.Name, Head(svs)), Tail(svs))

\* ServiceList.add(services, overwrite): the map, whether it is made, and
\* the error returned
ServiceListAdd(sl, svs, overwrite) ==
  IF overwrite /\ AlreadyExists(sl.Services, svs)
  THEN [Services |-> sl.Services, made |-> sl.made, err |-> TRUE]
  ELSE [Services |-> AddAll(sl.Services, svs), made |-> TRUE,
        err |-> FALSE]

\* the addresses given to RegisterRemoteServices
Addresses == { << "http", "://", "a" >>, << "http", "://", "b" >> }

\* getRemoteServices(address, name): an error of the request, or the
\* services of the answer with the url they were fetched from (the path is
\* "rpc" when the address has none)
getRemoteServices(address) ==
  LET u == ParseURL(address).url
      ustr == URLString(u) \o << "/", "rpc" >>
  IN  { [err |-> TRUE, services |-> << >>] } \cup
      { [err |-> FALSE,
         services |-> [i \in 1..Len(l) |-> Imported(l[i], ustr)]] :
          l \in GetServices(u.Host) }

\* the lists handed to importServices
ImportLists ==
  UNION { getRemoteServices(a) : a \in Addresses }

\* the list after a call of add, with the call and its error
AfterAdd(op, svs, overwrite) ==
  LET res == ServiceListAdd(remoteServices, svs, overwrite) IN
  [Services |-> res.Services, made |-> res.made,
   calls |-> remoteServices.calls + 1,
   last |-> [op |-> op, serv |-> svs, overwrite |-> overwrite,
             fetched |-> TRUE, err |-> res.err]]

\* GatewayServer.importServices(serv, overwrite)
importServices(serv, overwrite) ==
  /\ remoteServices.calls < MaxImports
  /\ remoteServices' = AfterAdd("importServices", serv, overwrite)
  /\ UNCHANGED << services, mutex, config, poll, h, call, task, crashed,
                  ticks, started, adds, got, server, probe >>

\* GatewayServer.RegisterRemoteServices(address, name)
RegisterRemoteServices(address) ==
  /\ remoteServices.calls < MaxImports
  /\ \E out \in getRemoteServices(address) :
       IF out.err
       THEN remoteServices' =
              [remoteServices EXCEPT
                 !.calls = @ + 1,
                 !.last = [op |-> "RegisterRemoteServices", serv |-> << >>,
                           overwrite |-> FALSE, fetched |-> FALSE,
                           err |-> TRUE]]
       ELSE remoteServices' =
              AfterAdd("RegisterRemoteServices", out.services, FALSE)
  /\ UNCHANGED << services, mutex, config, poll, h, call, task, crashed,
                  ticks, started, adds, got, server, probe >>

NextImport ==
  \/ \E l \in ImportLists, overwrite \in BOOLEAN :
       importServices(l.services, overwrite)
  \/ \E address \in Addresses : RegisterRemoteServices(address)

(***************************************************************************)
(* SpecServe: the request pipeline.  The registry is as a setup by AddURL   *)
(* left it and does not change; every configuration of the Gateway, every  *)
(* request and every callback are explored.                                *)
(***************************************************************************)
\* the registry after AddURL stored all of res for the url text u
RECURSIVE Stored(_, _, _, _)
Stored(svcs, res, uu, u) ==
  IF res = << >> THEN svcs
  ELSE Stored(MapSet(svcs, Head(res).Name, RemoteService(Head(res), uu, u)),
              Tail(res), uu, u)

\* the registry after AddURL("http://a") when backend a answered S and T
SetupURL == << "http", "://", "a" >>
SetupRegistry ==
  Stored(<< >>, << SvcS1, SvcT >>, ParseURL(SetupURL).url, SetupURL)

InitServe ==
  /\ services = SetupRegistry
  /\ mutex = [p \in Handlers \cup Callers \cup {Client, Shared} |-> Unlocked]
  /\ codecs \in CodecSetups
  /\ poll = FALSE
  /\ BackupHandler \in BOOLEAN
  /\ RequestCallback \in BOOLEAN
  /\ CORSMatch \in BOOLEAN
  /\ h = [r \in Handlers |-> IdleHandler]
  /\ call = [p \in Callers |-> NoCall]
  /\ task = [t \in Tasks |-> NoTask]
  /\ crashed = FALSE
  /\ ticks = 0
  /\ started = 0
  /\ adds = 0
  /\ got = NoGot
  /\ server = NewServer
  /\ probe = NoProbe
  /\ remoteServices = NewServiceList

NextServe ==
  \E r \in Handlers :
    \/ ServePollDefault(r)
    \/ ServeNextStep(r, AllInputs)

SpecServe == InitServe /\ [][NextServe]_vars

(***************************************************************************)
(* SpecRegistry: the registry under concurrency.  AddURL is called from    *)
(* outside, ticks arrive, handlers start refresh tasks and look methods up *)
(* while the registry is written.                                          *)
(***************************************************************************)
InitRegistry ==
  /\ services = << >>
  /\ mutex = [p \in Handlers \cup Callers \cup {Client, Shared} |-> Unlocked]
  /\ codecs = RegisterCodec({}, << "application/json" >>)
  /\ poll = FALSE
  /\ BackupHandler = FALSE
  /\ RequestCallback = FALSE
  /\ CORSMatch = FALSE
  /\ h = [r \in Handlers |-> IdleHandler]
  /\ call = [p \in Callers |-> NoCall]
  /\ task = [t \in Tasks |-> NoTask]
  /\ crashed = FALSE
  /\ ticks = 0
  /\ started = 0
  /\ adds = 0
  /\ got = NoGot
  /\ server = NewServer
  /\ probe = NoProbe
  /\ remoteServices = NewServiceList

NextRegistry ==
  \/ RegistryNext
  \/ \E r \in Handlers :
       \/ ServePollTick(r)
       \/ ServePollDefault(r)
       \/ ServeNextStep(r, RoutedInputs)

SpecRegistry == InitRegistry /\ [][NextRegistry]_vars

\* a step of the invocation r of ServeHTTP
ServeStep(r) ==
  \/ ServePollTick(r)
  \/ ServePollDefault(r)
  \/ ServeNextStep(r, RoutedInputs)

\* the steps of AddURL from g.mutex.Lock() to its return: straight-line code
LockedStep(p) ==
  \/ AddURLLock(p)
  \/ AddURLStoreService(p)
  \/ AddURLStoreURL(p)
  \/ AddURLUnlock(p)

\* SpecRegistry with the scheduling of the Go runtime: a goroutine that can
\* run does run, so a handler goes on and the locked section of AddURL
\* ends.  Nothing is assumed about the ticks, about the calls of AddURL from
\* outside, or about the progress of a refresh task, whose fetches may take
\* for ever.
SpecRegistryLive ==
  /\ SpecRegistry
  /\ \A r \in Handlers : WF_vars(ServeStep(r))
  /\ \A p \in Callers : WF_vars(LockedStep(p))

(***************************************************************************)
(* SpecLookup: the API of the Gateway outside the handler.  A goroutine    *)
(* fills the registry with AddURL while another asks GetMethodURL.         *)
(***************************************************************************)
NextLookup ==
  \/ \E u \in URLInputs : AddURL(u)
  \/ \E p \in Callers :
       \/ AddURLLock(p)
       \/ AddURLStoreService(p)
       \/ AddURLStoreURL(p)
       \/ AddURLUnlock(p)
  \/ \E mStr \in MethodStrs : GetMethodURL(mStr)

SpecLookup == InitRegistry /\ [][NextLookup]_vars

(***************************************************************************)
(* SpecRefresh: the registry is as a setup by AddURL left it and a         *)
(* callback that does nothing is configured; every tick makes a request    *)
(* start a refresh task, and the tasks run while requests are served.      *)
(***************************************************************************)
InitRefresh ==
  /\ services = SetupRegistry
  /\ mutex = [p \in Handlers \cup Callers \cup {Client, Shared} |-> Unlocked]
  /\ codecs = RegisterCodec({}, << "application/json" >>)
  /\ poll = FALSE
  /\ BackupHandler = FALSE
  /\ RequestCallback = TRUE
  /\ CORSMatch = FALSE
  /\ h = [r \in Handlers |-> IdleHandler]
  /\ call = [p \in Callers |-> NoCall]
  /\ task = [t \in Tasks |-> NoTask]
  /\ crashed = FALSE
  /\ ticks = 0
  /\ started = 0
  /\ adds = 0
  /\ got = NoGot
  /\ server = NewServer
  /\ probe = NoProbe
  /\ remoteServices = NewServiceList

NextRefresh ==
  \/ TickWithin(MaxRefresh)
  \/ \E p \in Callers :
       \/ AddURLLock(p)
       \/ AddURLStoreService(p)
       \/ AddURLStoreURL(p)
       \/ AddURLUnlock(p)
  \/ \E t \in Tasks :
       \/ refreshSnapshot(t)
       \/ refreshAddURL(t)
       \/ refreshDone(t)
  \/ RuntimeFatal
  \/ \E r \in Handlers :
       \/ ServePollTick(r)
       \/ ServePollDefault(r)
       \/ ServeNextStep(r, RoutedInputs)

SpecRefresh == InitRefresh /\ [][NextRefresh]_vars

SpecSchema == InitRegistry /\ [][NextSchema]_vars

SpecServer == InitRegistry /\ [][NextServer]_vars

(***************************************************************************)
(* SpecOverride: the services of the registry are at two backends and a    *)
(* callback that calls UpdateRequest is configured; requests for methods   *)
(* of both backends are served.                                            *)
(***************************************************************************)
\* the text AddURL stores for the second backend
OtherURL == WithScheme(<< "b" >>)

\* the registry after AddURL("http://a") stored S and T and AddURL("b")
\* stored S and U: S and U are at b, T is at a
OverrideRegistry ==
  Stored(SetupRegistry, << SvcS2, SvcU >>, ParseURL(OtherURL).url, OtherURL)

\* requests for a method at each backend, and the callbacks that do nothing
\* but call UpdateRequest
OverrideInputs ==
  [RoutedInputs EXCEPT
     !.CbRuns = { run \in CbRuns :
                    \A i \in 1..Len(run) : run[i].op = "UpdateRequest" }]

InitOverride ==
  /\ services = OverrideRegistry
  /\ mutex = [p \in Handlers \cup Callers \cup {Client, Shared} |-> Unlocked]
  /\ codecs = RegisterCodec({}, << "application/json" >>)
  /\ poll = FALSE
  /\ BackupHandler = FALSE
  /\ RequestCallback = TRUE
  /\ CORSMatch = FALSE
  /\ h = [r \in Handlers |-> IdleHandler]
  /\ call = [p \in Callers |-> NoCall]
  /\ task = [t \in Tasks |-> NoTask]
  /\ crashed = FALSE
  /\ ticks = 0
  /\ started = 0
  /\ adds = 0
  /\ got = NoGot
  /\ server = NewServer
  /\ probe = NoProbe
  /\ remoteServices = NewServiceList

NextOverride ==
  \E r \in Handlers :
    \/ ServePollDefault(r)
    \/ ServeNextStep(r, OverrideInputs)

SpecOverride == InitOverride /\ [][NextOverride]_vars

(***************************************************************************)
(* SpecEarlier: the earlier Gateway, whose RequestCallback returns bool    *)
(* and whose ServeHTTP forwards the request itself.  An entry of its       *)
(* registry tells whether its host was resolved by SRV when it was added.  *)
(***************************************************************************)
\* type remoteService of the earlier Gateway
EarlierRemote(srv, uu, srvOK) == [Service |-> srv, URL |-> uu, srv |-> srvOK]

\* the registry after AddURL("http://a") stored S without and
\* AddURL("http://b") stored U with an SRV answer
EarlierRegistry ==
  MapSet(MapSet(<< >>, << "S" >>,
                EarlierRemote(SvcS1, ParseURL(SetupURL).url, FALSE)),
         << "U" >>, EarlierRemote(SvcU, ParseURL(OtherURL).url, TRUE))

\* the earlier resolveURL: the copy of uu and whether SRV answered
EarlierResolveURL(uu) ==
  { [url |-> uu, srv |-> FALSE],
    [url |-> [uu EXCEPT !.Host = @ \o << ":", "8080" >>], srv |-> TRUE] }

\* the earlier getMethod: the URLs and errors a call may return
EarlierGetMethod(mStr) ==
  LET parts == SplitN2(mStr, ".") IN
  IF Len(parts) # 2
  THEN { [u |-> NilURL, err |-> "invalid method endpoint given"] }
  ELSE IF parts[1] \notin DOMAIN services
  THEN { [u |-> NilURL, err |-> "unknown service name"] }
  ELSE LET rsrv == services[parts[1]] IN
       IF parts[2] \notin DOMAIN rsrv.Service.Methods
       THEN { [u |-> NilURL, err |-> "unknown method name"] }
       ELSE IF rsrv.srv
       THEN { IF res.srv THEN [u |-> res.url, err |-> ""]
              ELSE [u |-> NilURL, err |-> "could not resolve host via srv"] :
                res \in EarlierResolveURL(rsrv.URL) }
       ELSE { [u |-> rsrv.URL, err |-> ""] }

\* what a callback of the earlier Gateway may do: write an error or not, and
\* return true or false
EarlierCbOutcomes == [wrote : BOOLEAN, ret : BOOLEAN]

\* the requests the earlier Gateway is given
EarlierInputs ==
  [HTTPMethods |-> {"POST", "GET"},
   ContentTypes |-> { << "application/json" >>, << "text/plain" >> },
   NewCodecRequests |->
     { [err |-> TRUE, method |-> << >>, params |-> << >>] } \cup
     { [err |-> FALSE, method |-> m, params |-> Marshal([a |-> "0"]).bytes] :
         m \in { << "S", ".", "M" >>, << "S", ".", "Z" >>,
                 << "U", ".", "X" >>, << "T", ".", "M" >>, << "S" >> } },
   UpstreamReplies |-> GoodReplies]

\* the POST check
EarlierCheckMethod(r, in) ==
  /\ ~crashed
  /\ h[r].pc = "idle"
  /\ started < MaxRequests
  /\ started' = started + 1
  /\ \E httpMethod \in in.HTTPMethods :
       LET hr == [h[r] EXCEPT !.httpMethod = httpMethod] IN
       IF httpMethod # "POST"
       THEN Return(r, [hr EXCEPT !.w = writeErrorf(@, 405)])
       ELSE h' = [h EXCEPT ![r] = [hr EXCEPT !.pc = "codec"]]
  /\ UNCHANGED << services, mutex, config, poll, call, task, crashed, ticks,
                  adds, got, server, probe, remoteServices >>

\* g.codecs[strings.ToLower(contentType)], codec.NewRequest(r) and
\* codecReq.Method()
EarlierCodec(r, in) ==
  /\ ~crashed
  /\ h[r].pc = "codec"
  /\ \E contentType \in in.ContentTypes :
       LET ct == ToLowerSeq(CutParams(contentType))
           hr == [h[r] EXCEPT !.contentType = contentType,
                              !.codec = IF ct \in codecs THEN ct ELSE << >>]
       IN  IF hr.codec = << >>
           THEN Return(r, [hr EXCEPT !.w = writeErrorf(@, 415)])
           ELSE \E cr \in in.NewCodecRequests :
                  IF CodecMethod(cr).err
                  THEN Return(r, [hr EXCEPT
                                    !.codecReq = cr,
                                    !.w = codecWriteError(@, 400, "method")])
                  ELSE h' = [h EXCEPT ![r] =
                               [hr EXCEPT !.codecReq = cr,
                                          !.pc = "getMethod"]]
  /\ UNCHANGED << services, mutex, config, poll, call, task, crashed, ticks,
                  started, adds, got, server, probe, remoteServices >>

\* u, rpcSrvName, rpcMethod, err := g.getMethod(m)
EarlierLookup(r) ==
  /\ ~crashed
  /\ h[r].pc = "getMethod"
  /\ CanRLock(r)
  /\ \E g \in EarlierGetMethod(CodecMethod(h[r].codecReq).m) :
       h' = [h EXCEPT ![r].pc = "route", ![r].URL = g.u, ![r].err = g.err]
  /\ UNCHANGED << services, mutex, config, poll, call, task, crashed, ticks,
                  started, adds, got, server, probe, remoteServices >>

\* the error of getMethod: the BackupHandler serves the request and the
\* handler returns, or the 400 is written and the handler goes on; then
\* r.URL = u and r.RequestURI = ""
EarlierRoute(r, in) ==
  /\ ~crashed
  /\ h[r].pc = "route"
  /\ IF h[r].err # "" /\ BackupHandler
     THEN \E reply \in in.UpstreamReplies :
            Return(r, [h[r] EXCEPT
                         !.handler = "BackupHandler",
                         !.sent = Append(@, [to |-> "BackupHandler",
                                             URL |-> NilURL,
                                             Body |-> h[r].codecReq.params]),
                         !.w = Append(@, Written("BackupHandler", "raw",
                                                 reply.status, reply.body))])
     ELSE h' = [h EXCEPT ![r] =
                  [h[r] EXCEPT
                     !.w = IF h[r].err # ""
                           THEN codecWriteError(@, 400, h[r].err) ELSE @,
                     !.RequestURI = << >>,
                     !.pc = "callback"]]
  /\ UNCHANGED << services, mutex, config, poll, call, task, crashed, ticks,
                  started, adds, got, server, probe, remoteServices >>

\* g.RequestCallback != nil && !g.RequestCallback(Request{...})
EarlierCallback(r) ==
  /\ ~crashed
  /\ h[r].pc = "callback"
  /\ IF RequestCallback
     THEN \E o \in EarlierCbOutcomes :
            h' = [h EXCEPT ![r] =
                    [h[r] EXCEPT
                       !.cbCalls = @ + 1,
                       !.w = IF o.wrote
                             THEN Append(@, Written("Request", "error", 400,
                                                    "callback error"))
                             ELSE @,
                       !.pc = IF o.ret THEN "forward" ELSE "done"]]
     ELSE h' = [h EXCEPT ![r].pc = "forward"]
  /\ UNCHANGED << services, mutex, config, poll, call, task, crashed, ticks,
                  started, adds, got, server, probe, remoteServices >>

\* http.DefaultClient.Do(r), which fails without a request for a nil URL,
\* and the copy of the reply to the client
EarlierForward(r, in) ==
  /\ ~crashed
  /\ h[r].pc = "forward"
  /\ IF h[r].URL = NilURL
     THEN Return(r, [h[r] EXCEPT !.w = codecWriteError(@, 500, "forward")])
     ELSE LET hr == [h[r] EXCEPT
                       !.handler = "externalHandler",
                       !.sent = Append(@, [to |-> "externalHandler",
                                           URL |-> h[r].URL,
                                           Body |-> h[r].codecReq.params])]
          IN  \/ Return(r, [hr EXCEPT
                              !.upstream = TransportFailed,
                              !.w = codecWriteError(@, 500, "forward")])
              \/ \E reply \in in.UpstreamReplies :
                   Return(r, [hr EXCEPT
                                !.upstream = Replied(reply),
                                !.w = Append(@, Written("gateway", "raw", 200,
                                                        reply.body))])
  /\ UNCHANGED << services, mutex, config, poll, call, task, crashed, ticks,
                  started, adds, got, server, probe, remoteServices >>

InitEarlier ==
  /\ services = EarlierRegistry
  /\ mutex = [p \in Handlers \cup Callers \cup {Client, Shared} |-> Unlocked]
  /\ codecs = RegisterCodec({}, << "application/json" >>)
  /\ poll = FALSE
  /\ BackupHandler \in BOOLEAN
  /\ RequestCallback \in BOOLEAN
  /\ CORSMatch = FALSE
  /\ h = [r \in Handlers |-> IdleHandler]
  /\ call = [p \in Callers |-> NoCall]
  /\ task = [t \in Tasks |-> NoTask]
  /\ crashed = FALSE
  /\ ticks = 0
  /\ started = 0
  /\ adds = 0
  /\ got = NoGot
  /\ server = NewServer
  /\ probe = NoProbe
  /\ remoteServices = NewServiceList

NextEarlier ==
  \E r \in Handlers :
    \/ EarlierCheckMethod(r, EarlierInputs)
    \/ EarlierCodec(r, EarlierInputs)
    \/ EarlierLookup(r)
    \/ EarlierRoute(r, EarlierInputs)
    \/ EarlierCallback(r)
    \/ EarlierForward(r, EarlierInputs)
    \/ ServeNext(r)

SpecEarlier == InitEarlier /\ [][NextEarlier]_vars

SpecImport == InitRegistry /\ [][NextImport]_vars

(***************************************************************************)
(* Properties of the request pipeline (SpecServe).                         *)
(***************************************************************************)
\* the invocation of r has got past the routing step
Routed(r) == h[r].pc \in {"callback", "dispatch", "reframe", "done"}

\* what ServeHTTP writes to the client for a recorded reply of the target
Reframed(rec) ==
  LET d == DecodeClientResponse(rec.Body) IN
  IF d.err THEN Written("gateway", "error", rec.Code, d.e)
  ELSE Written("gateway", "response", 200, d.result)

\* C1: once the callback has called WriteError or WriteResponse, the request
\* is handed to no target handler and the client's ResponseWriter holds
\* nothing but what the callback wrote; the handler only returns.
C1_CallbackShortCircuit ==
  \A r \in Handlers :
    (h[r].hasReq /\ h[r].req.responded) =>
      /\ h[r].pc \in {"dispatch", "done"}
      /\ h[r].sent = << >>
      /\ \A i \in 1..Len(h[r].w) : h[r].w[i].via = "Request"

\* a handler has returned after its callback answered the request
C1_Witness ==
  \E r \in Handlers :
    /\ h[r].pc = "done"
    /\ h[r].cbCalls = 1
    /\ h[r].req.responded
    /\ Len(h[r].w) >= 1

\* C2 as stated: when ServeHTTP returns, exactly one response has been
\* written to the client's ResponseWriter, never none and never two.
C2_ExactlyOneWritten ==
  \A r \in Handlers : h[r].pc = "done" => Len(h[r].w) = 1

\* C2 as amended: when ServeHTTP returns, the ResponseWriter holds responses
\* of one kind only: nothing for an OPTIONS request; for a request the
\* callback answered, what the callback wrote (one response per call of
\* WriteError or WriteResponse) and nothing of the gateway; for every other
\* request exactly one response, written by the gateway (its own error or
\* the re-framed reply of the target).
C2_OneKindOfResponse ==
  \A r \in Handlers :
    h[r].pc = "done" =>
      IF h[r].httpMethod = "OPTIONS" THEN h[r].w = << >>
      ELSE IF h[r].hasReq /\ h[r].req.responded
      THEN /\ Len(h[r].w) >= 1
           /\ \A i \in 1..Len(h[r].w) : h[r].w[i].via = "Request"
      ELSE /\ Len(h[r].w) = 1
           /\ h[r].w[1].via = "gateway"

\* a forwarded request has returned with its one re-framed response
C2_Witness ==
  \E r \in Handlers :
    /\ h[r].pc = "done"
    /\ ~h[r].req.responded
    /\ Len(h[r].sent) = 1
    /\ h[r].w = << Reframed(h[r].rec) >>

\* the method and the arguments of the envelope that was handed to the
\* external forwarder
SentEnvelope(r) == DecodeClientRequest(h[r].sent[1].Body)

\* C3 as stated: the envelope dispatched to the backend carries the last
\* non-empty method given to UpdateRequest (else the client's method) and
\* the last non-nil params given to UpdateRequest (else the client's
\* params).
C3_EnvelopeOfLastGiven ==
  \A r \in Handlers :
    (h[r].sent # << >> /\ h[r].handler = "externalHandler") =>
      LET q == h[r].req IN
      /\ SentEnvelope(r).method =
           (IF q.passedMethod # << >> THEN q.passedMethod
            ELSE q.codecReq.method)
      /\ SentEnvelope(r).params =
           (IF q.passedParams # Nil THEN Marshal(q.passedParams).bytes
            ELSE q.codecReq.params)

\* C3 as amended: the envelope dispatched to the backend carries the last
\* non-empty method given to UpdateRequest (else the client's method) and
\* the last non-nil params that UpdateRequest serialized without error
\* (else the client's params).
C3_EnvelopeOfEffective ==
  \A r \in Handlers :
    (h[r].sent # << >> /\ h[r].handler = "externalHandler") =>
      LET q == h[r].req IN
      /\ h[r].sent[1].Body = h[r].Body
      /\ SentEnvelope(r).method =
           (IF q.passedMethod # << >> THEN q.passedMethod
            ELSE q.codecReq.method)
      /\ SentEnvelope(r).params =
           (IF q.storedParams # Nil THEN Marshal(q.storedParams).bytes
            ELSE q.codecReq.params)

\* a request was forwarded after the callback changed method and arguments
C3_Witness ==
  \E r \in Handlers :
    /\ h[r].sent # << >>
    /\ h[r].handler = "externalHandler"
    /\ h[r].req.passedMethod # << >>
    /\ h[r].req.storedParams # Nil

\* UpdateRequest("", P) leaves the method and UpdateRequest(M, nil) leaves
\* the arguments of the Request q as they are
UpdateRequestFrame(q) ==
  /\ \A P \in CbParams :
       Method(UpdateRequest(q, << >>, P).q) = Method(q)
  /\ \A M \in CbMethods :
       LET q2 == UpdateRequest(q, M, Nil).q IN
       /\ q2.args = q.args
       /\ \A t \in OutTypes :
            /\ ReadRequest(q2, t).v = ReadRequest(q, t).v
            /\ ReadRequest(q2, t).err = ReadRequest(q, t).err

\* Method() returns the last non-empty method given to UpdateRequest, else
\* what the codec reports
MethodRoundTrip(q) ==
  IF q.passedMethod # << >>
  THEN Method(q) = [err |-> FALSE, m |-> q.passedMethod]
  ELSE Method(q) = CodecMethod(q.codecReq)

\* ReadRequest fills a FooArgs with the arguments the client sent
ReadsOriginal(q) ==
  /\ ~ReadRequest(q, "FooArgs").err
  /\ Marshal(ReadRequest(q, "FooArgs").v).bytes = q.codecReq.params

\* C4 as stated: after the calls of a callback, Method() returns the last
\* non-empty method given to UpdateRequest (else the codec's), ReadRequest
\* fills out with the last non-nil params given to UpdateRequest (else the
\* original arguments), and UpdateRequest("", P) and UpdateRequest(M, nil)
\* leave method and arguments alone.
C4_RoundTripOfLastGiven ==
  \A r \in Handlers :
    h[r].pc = "dispatch" =>
      LET q == h[r].req IN
      /\ MethodRoundTrip(q)
      /\ q.passedParams # Nil =>
           /\ ~ReadRequest(q, "FooArgs").err
           /\ ReadRequest(q, "FooArgs").v = q.passedParams
      /\ (q.passedParams = Nil /\ ~q.codecReq.err) => ReadsOriginal(q)
      /\ UpdateRequestFrame(q)

\* C4 as amended: the same, with ReadRequest filling out with the last
\* non-nil params that UpdateRequest serialized without error (else the
\* original arguments).
C4_RoundTripOfStored ==
  \A r \in Handlers :
    h[r].pc = "dispatch" =>
      LET q == h[r].req IN
      /\ MethodRoundTrip(q)
      /\ q.storedParams # Nil =>
           /\ ~ReadRequest(q, "FooArgs").err
           /\ ReadRequest(q, "FooArgs").v = q.storedParams
      /\ (q.storedParams = Nil /\ ~q.codecReq.err) => ReadsOriginal(q)
      /\ UpdateRequestFrame(q)

\* a callback has returned after it changed the method and the arguments
C4_Witness ==
  \E r \in Handlers :
    /\ h[r].pc = "dispatch"
    /\ h[r].cbCalls = 1
    /\ h[r].req.passedMethod # << >>
    /\ h[r].req.storedParams # Nil
    /\ h[r].req.storedParams # Zero("FooArgs")

\* the method string names a service or a method the registry does not hold
Unregistered(mStr) ==
  LET parts == SplitN2(mStr, ".") IN
  /\ Len(parts) = 2
  /\ \/ parts[1] \notin DOMAIN services
     \/ parts[2] \notin DOMAIN services[parts[1]].Service.Methods

\* the method string names a service the registry does not hold
ServiceAbsent(mStr) ==
  LET parts == SplitN2(mStr, ".") IN
  /\ Len(parts) = 2
  /\ parts[1] \notin DOMAIN services

\* C9: without a BackupHandler, a request for a service or method that is
\* not in the registry returns at the routing step: one JSON-RPC error with
\* status 400 is written through the codec request, the callback has not
\* been called and nothing has been dispatched.
C9_UnknownWithoutBackup ==
  \A r \in Handlers :
    (/\ ~BackupHandler
     /\ h[r].pc \in {"callback", "dispatch", "reframe", "done"}
     /\ h[r].codec # << >>
     /\ Unregistered(h[r].codecReq.method)) =>
      /\ h[r].pc = "done"
      /\ Len(h[r].w) = 1
      /\ h[r].w[1].via = "gateway"
      /\ h[r].w[1].kind = "error"
      /\ h[r].w[1].status = 400
      /\ h[r].cbCalls = 0
      /\ ~h[r].hasReq
      /\ h[r].sent = << >>

\* a request for an unknown service has been answered with the 400
C9_Witness ==
  \E r \in Handlers :
    /\ ~BackupHandler
    /\ RequestCallback
    /\ h[r].pc = "done"
    /\ ServiceAbsent(h[r].codecReq.method)
    /\ Len(h[r].w) = 1
    /\ h[r].w[1].status = 400

WholeEntry(e) == e = ZeroRemote \/ (e.Service # ZeroService /\ e.URL # NilURL)

\* C5: the registry is guarded by one readers-writer lock shared by all
\* calls: no lookup of getMethod reads the map while an AddURL writes it,
\* no two calls of AddURL write it at the same time, and what a lookup
\* returned is an entry in full.
C5_RegistryLockExcludes ==
  /\ \A p \in Callers : \A r \in Handlers : ~(InWrite(p) /\ InRead(r))
  /\ \A p \in Callers : \A p2 \in Callers \ {p} :
       ~(InWrite(p) /\ InWrite(p2))
  /\ \A r \in Handlers : WholeEntry(h[r].rsrv)

\* C6: the registry never shrinks: no step removes a key of the registry,
\* and every entry stays under the name of its service.
C6_RegistryNeverShrinks ==
  [][/\ DOMAIN services \subseteq DOMAIN services'
     /\ \A k \in DOMAIN services' : services'[k].Service.Name = k]_vars

\* C7: when AddURL(u) is about to return nil, every service of the answer
\* of RPC.GetServices is a key of the registry whose entry holds the
\* service as answered and the URL u as it was configured.
C7_AddURLStoresAll ==
  \A p \in Callers :
    call[p].pc = "unlock" =>
      \A i \in 1..Len(call[p].res) :
        LET srv == call[p].res[i] IN
        /\ srv.Name \in DOMAIN services
        /\ services[srv.Name] = RemoteService(srv, call[p].uu, call[p].u)

\* the step is the return of a call of AddURL by p with an error
FailedAddURL(p) ==
  /\ call[p].pc = "none"
  /\ call'[p].pc = "none"
  /\ call'[p].ret \notin {"none", "nil"}
  /\ IF p = Main THEN adds' = adds + 1
     ELSE task'[p].srvs # task[p].srvs

\* C8: a call of AddURL that fails (the URL does not parse, has no host, or
\* the fetch of the services fails), made directly or by a refresh, leaves
\* the registry as it was, and leaves every invocation of ServeHTTP in
\* flight and what it has written as they were.
C8_FailedAddURLChangesNothing ==
  [][\A p \in Callers :
       FailedAddURL(p) => (services' = services /\ h' = h)]_vars

\* an AddURL of a refresh has failed on its fetch while the registry held
\* entries and a request was in flight
C8_Witness ==
  \E t \in Tasks :
    /\ call[t].pc = "none"
    /\ call[t].ret = "fetch"
    /\ DOMAIN services # {}
    /\ \E r \in Handlers : h[r].pc \notin {"idle", "done"}

\* the method string does not split into two parts at its first "."
Malformed(mStr) == mStr # << >> /\ Len(SplitN2(mStr, ".")) # 2

\* C11: with or without a BackupHandler, a request whose method does not
\* split into exactly two parts at the first "." is answered with one error
\* of status 400 by the gateway and is dispatched to no target handler.
C11_MalformedMethodRejected ==
  \A r \in Handlers :
    (/\ h[r].pc \in {"callback", "dispatch", "reframe", "done"}
     /\ h[r].codec # << >>
     /\ Malformed(h[r].codecReq.method)) =>
      /\ h[r].pc = "done"
      /\ Len(h[r].w) = 1
      /\ h[r].w[1].via = "gateway"
      /\ h[r].w[1].kind = "error"
      /\ h[r].w[1].status = 400
      /\ h[r].sent = << >>

\* C12: a request whose HTTP method is neither POST nor OPTIONS is rejected
\* with 405 at the method check: no codec has been selected or asked, the
\* callback has not been called and nothing has been dispatched.
C12_NonPostRejected ==
  \A r \in Handlers :
    (h[r].httpMethod \notin {"", "POST", "OPTIONS"}) =>
      /\ h[r].pc = "done"
      /\ h[r].w = writeErrorf(<< >>, 405)
      /\ h[r].codec = << >>
      /\ h[r].codecReq = NoCodecRequest
      /\ ~h[r].hasReq
      /\ h[r].cbCalls = 0
      /\ h[r].sent = << >>

\* a GET has been answered with 405
C12_Witness ==
  \E r \in Handlers :
    /\ h[r].pc = "done"
    /\ h[r].httpMethod = "GET"
    /\ Len(h[r].w) = 1
    /\ h[r].w[1].status = 405

\* the key under which the codec of a Content-Type header is looked up
CodecKey(contentType) == ToLowerSeq(CutParams(contentType))

\* the outcome of codec selection for the invocation r, given whether the
\* content type counts as absent: the request goes on with codec C iff C is
\* registered under the key, or the type is absent and one codec is
\* registered; otherwise 415 is written and the body is not decoded
CodecSelected(r, absent) ==
  LET key == CodecKey(h[r].contentType)
      only == absent /\ Cardinality(codecs) = 1
  IN  /\ h[r].codec # << >> <=> (key \in codecs \/ only)
      /\ h[r].codec # << >> =>
           h[r].codec = (IF only THEN CHOOSE c \in codecs : TRUE ELSE key)
      /\ h[r].codec = << >> =>
           /\ h[r].pc = "done"
           /\ h[r].w = writeErrorf(<< >>, 415)
           /\ h[r].codecReq = NoCodecRequest
           /\ h[r].sent = << >>

C14_PreflightOnlyOnMatch ==
  \A r \in Handlers :
    (h[r].pc = "done" /\ h[r].httpMethod = "OPTIONS") =>
      IF CORSMatch /\ h[r].origin # "" /\ MatchString(h[r].origin)
      THEN h[r].w = << >> /\ h[r].cors = h[r].origin
      ELSE h[r].w = writeErrorf(<< >>, 405)

\* C15: from the CORS test on and for every way ServeHTTP ends (preflight,
\* 405, 415, 400, answered by the callback, forwarded, 500), the
\* Access-Control headers are on the response iff a CORS matcher is
\* configured and the Origin is not empty and matches;
\* Access-Control-Allow-Origin is then the Origin of the request.
C15_CORSHeadersIffMatch ==
  \A r \in Handlers :
    h[r].pc \notin {"idle", "serve"} =>
      h[r].cors = (IF CORSMatch /\ h[r].origin # "" /\ MatchString(h[r].origin)
                   THEN h[r].origin ELSE "")

\* a forwarded request with a matching Origin has been answered
C15_Witness ==
  \E r \in Handlers :
    /\ h[r].pc = "done"
    /\ h[r].sent # << >>
    /\ Len(h[r].w) = 1
    /\ h[r].origin # ""
    /\ h[r].cors = h[r].origin

\* C16: when the reply of the backend to a forwarded request does not decode
\* as a JSON-RPC result, the gateway writes one error through the codec
\* request with the HTTP status the backend answered with.
C16_DecodeErrorAtUpstreamStatus ==
  \A r \in Handlers :
    (/\ h[r].pc = "done"
     /\ h[r].handler = "externalHandler"
     /\ h[r].upstream.kind = "reply"
     /\ DecodeClientResponse(h[r].upstream.body).err) =>
      h[r].w = << Written("gateway", "error", h[r].upstream.status,
                          DecodeClientResponse(h[r].upstream.body).e) >>

\* C17: when the upstream request of a forwarded call fails at the
\* transport, the client gets exactly one error written through the codec
\* request with status 500, and no result.
C17_TransportFailureIs500 ==
  \A r \in Handlers :
    (h[r].pc = "done" /\ h[r].upstream.kind = "failed") =>
      /\ h[r].handler = "externalHandler"
      /\ Len(h[r].w) = 1
      /\ h[r].w[1].via = "gateway"
      /\ h[r].w[1].kind = "error"
      /\ h[r].w[1].status = 500

\* a forwarded request whose upstream request failed has been answered
C17_Witness ==
  \E r \in Handlers :
    /\ h[r].pc = "done"
    /\ Len(h[r].sent) = 1
    /\ h[r].URL # NilURL
    /\ h[r].upstream.kind = "failed"
    /\ Len(h[r].w) = 1

\* C18: the backend is resolved per call and the registry is left alone: a
\* forwarded request goes once to the URL resolved for it, which is the URL
\* of the entry with the host:port of the SRV answer or, when the SRV
\* lookup fails, with the host as stored; and after any number of requests
\* every entry of the registry holds the URL that AddURL stored.
C18_ResolutionPerCall ==
  /\ services = SetupRegistry
  /\ \A r \in Handlers :
       (h[r].sent # << >> /\ h[r].handler = "externalHandler") =>
         LET stored == services[h[r].rsrv.Service.Name].URL IN
         /\ Len(h[r].sent) = 1
         /\ h[r].sent[1].URL = h[r].URL
         /\ h[r].URL \in resolveURL(stored)
         /\ stored = ParseURL(SetupURL).url

\* the second request of a run has been forwarded to the host:port of an
\* SRV answer
C18_Witness ==
  \E r \in Handlers :
    /\ started = MaxRequests
    /\ h[r].pc = "done"
    /\ h[r].handler = "externalHandler"
    /\ Len(h[r].sent) = 1
    /\ h[r].sent[1].URL.Host = << "a", ":", "8080" >>

(***************************************************************************)
(* Properties of GetMethodURL (SpecLookup).                                *)
(***************************************************************************)
\* C19: GetMethodURL returns normally, without a crash, for every method
\* string; it returns an error whenever the string is malformed or the
\* service or the method is unknown, and a URL without an error only when
\* service and method are registered.
C19_GetMethodURLReturnsError ==
  got.called =>
    /\ ~got.panicked
    /\ ~got.registered => got.err # ""
    /\ got.err = "" => (got.registered /\ got.url # NilURL)

(***************************************************************************)
(* Properties of the refresh (SpecRegistryLive).                           *)
(***************************************************************************)
\* C20: the refresh never blocks a request: whether a tick waits or not,
\* and whether or not a refresh task that was started ever gets through,
\* every invocation of ServeHTTP that has passed the select on g.poll
\* produces its response and returns.  (A run in which the process is
\* aborted while a call of AddURL from outside the handler is writing the
\* registry is not held against the refresh.)
C20_RequestCompletes ==
  \A r \in Handlers :
    (h[r].pc = "serve") ~> (h[r].pc = "done" \/ (crashed /\ InWrite(Main)))


(***************************************************************************)
(* Properties of the introspection Server (SpecServer) and of the schema   *)
(* extractor (SpecSchema).                                                 *)
(***************************************************************************)
\* the methods of a receiver that getMethods accepts
Accepted(rcv) ==
  { rcv.Methods[i] : i \in { j \in 1..Len(rcv.Methods) :
                               Accepts(rcv.Methods[j]) } }

\* the service a successful call RegisterService(e.rcv, e.name) stands for:
\* its name, and every accepted method with the descriptors of its argument
\* and reply types
ExpectedService(e) ==
  SchemaService(
    IF e.name # << >> THEN e.name
    ELSE IF e.rcv.Type.kind = KindPtr THEN e.rcv.Type.Elem[1].Name
    ELSE e.rcv.Type.Name,
    { Member(m.Name,
             SchemaMethod(m.Name, processType(m.In[3]).typ,
                          processType(m.In[4]).typ)) :
        m \in Accepted(e.rcv) })

Conforming(m) ==
  /\ isExported(m.Name)
  /\ Len(m.In) - 1 = 3
  /\ m.In[2] = PtrTo(typeOfRequest)
  /\ \A i \in { 3, 4 } :
       /\ m.In[i].kind = KindPtr
       /\ isExportedOrBuiltin(m.In[i].Elem[1])
  /\ m.Out = << typeOfError >>

\* the receiver without the methods the filter skips
Stripped(rcv) ==
  Rcvr(rcv.Type,
       Pick(rcv.Methods,
            { i \in 1..Len(rcv.Methods) : Conforming(rcv.Methods[i]) }, 1))

\* RegisterService(rcv, name) returns an error on a Server whose rpc.Server
\* has the services rpc
RegistrationFails(rpc, rcv, name) ==
  \/ rpcRegisterService(rpc, rcv, name).err
  \/ getName(rcv, name).err
  \/ registerMethods(getMethods(rcv), 1, {}).err

\* C22: a method is in the extracted schema iff it is exported, takes a
\* pointer to the HTTP request, a pointer to an exported or built-in args
\* type and a pointer to an exported or built-in reply type, and returns
\* one value of the error type; the other methods are skipped without a
\* bearing on the registration, which ends as it does for the receiver
\* without them.
C22_MethodFilter ==
  [][probe'.op = "RegisterService" /\ probe'.calls = probe.calls + 1 =>
       /\ { m.Name : m \in Accepted(probe'.rcv) }
            = { probe'.rcv.Methods[i].Name :
                  i \in { j \in 1..Len(probe'.rcv.Methods) :
                            Conforming(probe'.rcv.Methods[j]) } }
       /\ ~probe'.err =>
            ObjectKeys(server'.services[Len(server'.services)].Methods)
              = { m.Name : m \in Accepted(probe'.rcv) }
       /\ probe'.err
            = RegistrationFails(server.rpc, Stripped(probe'.rcv),
                                probe'.name)]_vars

\* a receiver with a handler and a method that is none was registered, and
\* its service has the handler only
C22_Witness ==
  /\ probe.op = "RegisterService"
  /\ ~probe.err
  /\ Len(probe.rcv.Methods) = 2
  /\ probe.rcv.Methods[2].Name = << "W", "at" >>
  /\ ObjectKeys(server.services[Len(server.services)].Methods)
       = { << "F", "oo" >> }


\* C26: when the walk of an argument or reply type of an accepted method
\* fails, RegisterService returns the error and the list GetServices
\* returns is as it was; a call appends a service only when all its
\* accepted methods walked.
C26_RegistrationAllOrNothing ==
  [][probe'.op = "RegisterService" /\ probe'.calls = probe.calls + 1 =>
       LET walks == \A m \in Accepted(probe'.rcv) :
                      /\ ~processType(m.In[3]).err
                      /\ ~processType(m.In[4]).err
       IN  /\ ~walks => probe'.err /\ server'.services = server.services
           /\ probe'.err => server'.services = server.services
           /\ server'.services # server.services =>
                /\ walks
                /\ Len(server'.services) = Len(server.services) + 1
                /\ SubSeq(server'.services, 1, Len(server.services))
                     = server.services]_vars

\* the second of two accepted methods has a reply type that does not walk:
\* the rpc.Server took the service, the call returned the error and the
\* list is empty
C26_Witness ==
  /\ probe.op = "RegisterService"
  /\ probe.err
  /\ probe.name = << "S", "vc" >>
  /\ Len(probe.rcv.Methods) = 2
  /\ probe.rcv.Methods[1].Name = << "B", "ar" >>
  /\ probe.rcv.Methods[2].Name = << "C", "han" >>
  /\ << "S", "vc" >> \in server.rpc
  /\ server.services = << >>


\* the type a call of processType looks at: one pointer is followed
Deref(t) == IF t.kind = KindPtr THEN t.Elem[1] ELSE t

\* the walk of a type yields an object
YieldsObject(t) ==
  LET walk == processType(t) IN ~walk.err /\ ~walk.typ.ObjectOf.nil

\* the entries of the object of a struct by the flattening rule, from field
\* i on: an embedded field whose walk yields an object gives its child's
\* entries, every other exported field one entry under its tag name or,
\* without one, its declared name; a later entry replaces an earlier one
\* of the same key
RECURSIVE Flattened(_, _, _)
Flattened(t, i, m) ==
  IF i > Len(t.Field) THEN m
  ELSE LET f == t.Field[i] IN
       IF ~isExported(f.Name) THEN Flattened(t, i + 1, m)
       ELSE IF f.Anonymous /\ YieldsObject(f.Type)
       THEN Flattened(t, i + 1,
                      ObjectMerge(m, processType(f.Type).typ.ObjectOf.kv))
       ELSE Flattened(t, i + 1,
                      ObjectPut(m, getFieldKey(f), processType(f.Type).typ))

\* C23: the object of a struct has, for an embedded field whose walk yields
\* an object, the entries of that object and no entry under the field's own
\* tag or name, and for every other exported field one entry under its tag
\* name or else its declared name; of two entries with one key the one of
\* the later field stays.
C23_Flattening ==
  probe.op = "processType" /\ Deref(probe.t).kind = KindStruct
  /\ ~probe.out.err =>
    probe.out.typ = ObjectType(Flattened(Deref(probe.t), 1, {}))


\* a kind of type the walk does not support: a map whose key is not a
\* string, a typed interface, a channel, a function, a complex number
Unsupported(t) ==
  \/ t.kind = KindMap /\ t.Key[1].kind # KindString
  \/ t.kind = KindInterface /\ t # typeOfEmptyInterface
  \/ t.kind \in { KindChan, KindFunc, KindComplex128 }

\* the types a type contains, at any depth; with exportedOnly, those behind
\* a field that is not exported are left out
RECURSIVE Parts(_, _)
Parts(t, exportedOnly) ==
  { t }
  \cup (IF t.kind \in { KindPtr, KindSlice, KindArray, KindMap }
        THEN Parts(t.Elem[1], exportedOnly) ELSE {})
  \cup UNION { Parts(t.Field[i].Type, exportedOnly) :
                 i \in { j \in 1..Len(t.Field) :
                           exportedOnly => isExported(t.Field[j].Name) } }

\* the interface{} is walked to the scalar leaf of kind interface
LeafOfEmptyInterface ==
  probe.t = typeOfEmptyInterface =>
    probe.out = Walked(ScalarType(KindInterface))

\* C24 as stated: processType fails for every type that contains, at any
\* depth, a map with a key that is not a string, a typed interface, a
\* channel, a function or a complex number, and walks the interface{} to a
\* scalar leaf.
C24_FailsAtAnyDepth ==
  probe.op = "processType" =>
    /\ (\E s \in Parts(probe.t, FALSE) : Unsupported(s)) => probe.out.err
    /\ LeafOfEmptyInterface

\* C24 amended: the same for the types contained behind pointers, elements,
\* map values and exported fields; what only a field that is not exported
\* contains is not walked.
C24_FailsWhereWalked ==
  probe.op = "processType" =>
    /\ (\E s \in Parts(probe.t, TRUE) : Unsupported(s)) => probe.out.err
    /\ LeafOfEmptyInterface

\* a struct whose exported field is a map with an int key, in a slice: the
\* walk failed
C24_Witness ==
  /\ probe.op = "processType"
  /\ probe.out.err
  /\ probe.t.kind = KindSlice
  /\ probe.t.Elem[1].kind = KindStruct
  /\ Len(probe.t.Elem[1].Field) = 1
  /\ probe.t.Elem[1].Field[1]
       = StructField(<< "A" >>, << "a" >>, FALSE, MapOf(TInt, TInt))


\* C25: for every type processType accepts, a struct without exported
\* fields included, the descriptor decoded from the wire form of the
\* extracted descriptor is structurally equal to the extracted descriptor.
C25_SchemaRoundTrip ==
  probe.op = "Unmarshal" => probe.back = probe.out.typ


(***************************************************************************)
(* Properties of the refresh tasks (SpecRefresh).                          *)
(***************************************************************************)
\* the step is the fetch of a call of AddURL by p: the SRV lookup and the
\* request for RPC.GetServices
Fetches(p) == call[p].pc = "none" /\ call'[p] # call[p]

\* the step is one of those of ServeHTTP that wait for somebody else: the
\* SRV resolution of the routed request, the callback, the request to the
\* target handler and its reply
Forwards(r) ==
  /\ h[r].pc \in {"route", "callback", "dispatch", "reframe"}
  /\ h'[r] # h[r]

\* C27: nothing that blocks runs under the registry lock: the fetch and the
\* SRV lookup of AddURL, also of the AddURL calls of a refresh, the SRV
\* resolution of a request, the callback and the upstream request happen
\* with the lock of the goroutine released; the lock is held only for the
\* lookup in the map, the copy of the snapshot and the insertion.
C27_NoBlockingUnderLock ==
  [][/\ \A p \in Callers : Fetches(p) => mutex[Receiver(p)] = Unlocked
     /\ \A r \in Handlers : Forwards(r) => mutex[Receiver(r)] = Unlocked
     /\ \A p \in Callers :
          mutex[Receiver(p)] # Unlocked =>
            call[p].pc \in {"store", "store2", "unlock"}
     /\ \A r \in Handlers :
          mutex[Receiver(r)] # Unlocked => h[r].pc = "lookup"]_vars

\* a refresh inserts under its lock, the other refresh has fetched and a
\* request that went through its callback waits for the upstream
C27_Witness ==
  \E t1, t2 \in Tasks : \E r \in Handlers :
    /\ t1 # t2
    /\ call[t1].pc = "store2" /\ mutex[Receiver(t1)].w
    /\ call[t2].pc = "lock"
    /\ h[r].pc = "reframe" /\ h[r].cbCalls = 1
    /\ mutex[Receiver(r)] = Unlocked


\* the keys of the registry as the setup left it
SetupKeys == DOMAIN SetupRegistry

\* C28: two refresh tasks that run at the same time as each other and as
\* requests are safe: the process never crashes, and when both tasks are
\* done every key of the registry has an entry in full, schema and URL, as
\* one call of AddURL stores it, and every key that was there before the
\* refreshes is still there.
C28_ConcurrentRefreshSafe ==
  /\ (\A t \in Tasks : task[t].pc # "unborn") => ~crashed
  /\ (\A t \in Tasks : task[t].pc = "done") =>
       /\ SetupKeys \subseteq DOMAIN services
       /\ \A k \in DOMAIN services :
            /\ services[k] # ZeroRemote
            /\ WholeEntry(services[k])
            /\ services[k].Service.Name = k
            /\ \E srvs \in GetServices(services[k].URL.Host) :
                 \E i \in 1..Len(srvs) : srvs[i] = services[k].Service


(***************************************************************************)
(* C29                                                                     *)
(***************************************************************************)
\* what a JSON-RPC client reading the backend's reply itself would hold: a
\* result (null included), an error, or no JSON-RPC reply at all
BackendReturned(body) ==
  IF Len(body) >= 3 /\ body[1] = "{" /\ body[2] = "result:"
  THEN [kind |-> "response", v |-> SubSeq(body, 3, Len(body) - 1)]
  ELSE IF Len(body) >= 3 /\ body[1] = "{" /\ body[2] = "error:"
  THEN [kind |-> "error", v |-> << body[3] >>]
  ELSE [kind |-> "none", v |-> << >>]

\* the callback of the request has neither answered it nor called
\* UpdateRequest with a method or with params
Untouched(r) ==
  /\ ~h[r].req.responded
  /\ h[r].req.passedMethod = << >>
  /\ h[r].req.passedParams = Nil

\* C29: transparency of forwarding: for a request to a registered service
\* and method that the callback neither answers nor mutates, the client
\* receives through the gateway what the backend returned: a backend result
\* is re-emitted as that result, a backend error as that error.
C29_ForwardingTransparent ==
  \A r \in Handlers :
    (/\ h[r].pc = "done"
     /\ h[r].handler = "externalHandler"
     /\ Untouched(r)
     /\ h[r].upstream.kind = "reply"
     /\ BackendReturned(h[r].upstream.body).kind # "none") =>
      LET b == BackendReturned(h[r].upstream.body) IN
      /\ Len(h[r].w) = 1
      /\ h[r].w[1].kind = b.kind
      /\ IF b.kind = "response" THEN h[r].w[1].body = b.v
         ELSE << h[r].w[1].body >> = b.v


(***************************************************************************)
(* C30                                                                     *)
(***************************************************************************)
\* the text has a scheme prefix: what url.Parse takes for the scheme
HasScheme(u) == Index(u, "://") # 0

\* C30: AddURL assumes http:// when the given URL has no scheme prefix: for
\* every u without a scheme, one whose host name begins with the letters
\* "http" included, whatever a call AddURL(u) does is what the call
\* AddURL("http://" + u) does, and a u that has a scheme is used unchanged.
C30_SchemeAssumed ==
  [][\A u \in URLInputs :
       AddURL(u) =>
         IF HasScheme(u)
         THEN call'[Main].pc = "lock" => call'[Main].u = u
         ELSE AddURL(<< "http", "://" >> \o u)]_vars


(***************************************************************************)
(* C31                                                                     *)
(***************************************************************************)
\* the params of the envelope that getClientRequest encodes for a Request
EnvelopeParams(q) == IF q.args = << >> THEN << "null" >> ELSE q.args

\* C31: the order of the pipeline around the callback: when the callback is
\* invoked for a request to a registered service, the URL of the request is
\* already the resolved URL of the backend and its RequestURI is cleared,
\* and nothing has been built or sent yet; the outgoing envelope is built
\* after the callback returned, so the forwarded body carries the method and
\* the arguments as the callback left them.
C31_PipelineOrder ==
  \A r \in Handlers :
    /\ (h[r].pc = "callback" /\ h[r].handler = "externalHandler") =>
         /\ h[r].URL # NilURL
         /\ h[r].URL \in resolveURL(h[r].rsrv.URL)
         /\ h[r].RequestURI = << >>
         /\ h[r].cbCalls = 0
         /\ h[r].Body = << >>
         /\ h[r].sent = << >>
    /\ (h[r].sent # << >> /\ h[r].handler = "externalHandler") =>
         /\ RequestCallback => h[r].cbCalls = 1
         /\ h[r].sent[1].URL = h[r].URL
         /\ h[r].RequestURI = << >>
         /\ SentEnvelope(r).method = Method(h[r].req).m
         /\ SentEnvelope(r).params = EnvelopeParams(h[r].req)

\* a request was forwarded with the method and the arguments that its
\* callback had put in place of the client's
C31_Witness ==
  \E r \in Handlers :
    /\ h[r].pc = "reframe"
    /\ h[r].handler = "externalHandler"
    /\ h[r].cbCalls = 1
    /\ h[r].req.newMethod # << >>
    /\ h[r].req.newMethod # h[r].codecReq.method
    /\ h[r].req.args # h[r].codecReq.params
    /\ SentEnvelope(r).method = h[r].req.newMethod


(***************************************************************************)
(* C32                                                                     *)
(***************************************************************************)
\* the sequence s without its element i
Without(s, i) == SubSeq(s, 1, i - 1) \o SubSeq(s, i + 1, Len(s))

\* the walk of the type yields an object without entries
YieldsEmptyObject(t) ==
  YieldsObject(t) /\ processType(t).typ.ObjectOf.kv = {}

\* C32: an embedded field whose walk yields an object with zero fields is
\* flattened like every other embedded object: it adds no key, so the object
\* of the enclosing struct is the one of the struct without that field.
C32_EmptyEmbeddedAddsNoKey ==
  (/\ probe.op = "processType"
   /\ Deref(probe.t).kind = KindStruct
   /\ ~probe.out.err) =>
    LET t == Deref(probe.t) IN
    \A i \in 1..Len(t.Field) :
      (t.Field[i].Anonymous /\ YieldsEmptyObject(t.Field[i].Type)) =>
        probe.out = processType([t EXCEPT !.Field = Without(@, i)])


(***************************************************************************)
(* C33                                                                     *)
(***************************************************************************)
\* the refresh tasks started so far
Spawned == { t \in Tasks : task[t].pc # "unborn" }

\* the step starts the refresh task t
Spawns(t) == task[t].pc = "unborn" /\ task'[t].pc # "unborn"

\* the step is the select on g.poll of an invocation that takes a tick
TakesTick(r) ==
  /\ h[r].pc = "idle"
  /\ h'[r].pc = "serve"
  /\ poll
  /\ ~poll'

ServicePrefix(mStr) == SplitN2(mStr, ".")[1]

\* the request of r went to the backend stored for the service of mStr
SentToBackendOf(r, mStr) ==
  /\ ServicePrefix(mStr) \in DOMAIN services
  /\ h[r].sent[1].URL \in resolveURL(services[ServicePrefix(mStr)].URL)

\* C34 as stated: the backend that receives a forwarded request is the one
\* registered for the service prefix of the effective method in the outgoing
\* envelope, also when the callback has overridden the method by one of
\* another service.
C34_RoutedByEffectiveMethod ==
  \A r \in Handlers :
    (h[r].sent # << >> /\ h[r].handler = "externalHandler") =>
      SentToBackendOf(r, SentEnvelope(r).method)

\* C34 as amended: the backend that receives a forwarded request is the one
\* registered for the service prefix of the method the client sent; a method
\* that the callback put in its place is carried by the outgoing envelope
\* and changes nothing about the backend.
C34_RoutedByClientMethod ==
  \A r \in Handlers :
    (h[r].sent # << >> /\ h[r].handler = "externalHandler") =>
      /\ SentToBackendOf(r, h[r].codecReq.method)
      /\ SentEnvelope(r).method = Method(h[r].req).m

\* a request for a service at one backend was forwarded there with the
\* method of a service at the other backend in its envelope
C34_Witness ==
  \E r \in Handlers :
    /\ h[r].sent # << >>
    /\ h[r].handler = "externalHandler"
    /\ SentEnvelope(r).method = h[r].req.newMethod
    /\ ServicePrefix(h[r].req.newMethod) \in DOMAIN services
    /\ services[ServicePrefix(h[r].req.newMethod)].URL
         # services[ServicePrefix(h[r].codecReq.method)].URL
    /\ ~SentToBackendOf(r, h[r].req.newMethod)


(***************************************************************************)
(* C35                                                                     *)
(***************************************************************************)
\* Method() and ReadRequest return for q2 what they return for q
SameToCaller(q, q2) ==
  /\ Method(q2) = Method(q)
  /\ \A t \in OutTypes :
       /\ ReadRequest(q2, t).v = ReadRequest(q, t).v
       /\ ReadRequest(q2, t).err = ReadRequest(q, t).err

\* C35: UpdateRequest is atomic on failure: when a call of UpdateRequest
\* returns an error, the method override and the argument bytes of the
\* Request are as before the call, and Method() and ReadRequest return what
\* they returned before it.
C35_UpdateRequestAtomic ==
  \A r \in Handlers :
    h[r].pc \in {"callback", "dispatch"} =>
      \A M \in CbMethods, P \in CbParams :
        LET q == h[r].req
            u == UpdateRequest(q, M, P)
        IN  u.err =>
              /\ u.q.newMethod = q.newMethod
              /\ u.q.args = q.args
              /\ SameToCaller(q, u.q)


(***************************************************************************)
(* C36                                                                     *)
(***************************************************************************)
\* C36: the backend URL is resolved only for a request whose target is the
\* external forwarder: a request whose target is the BackupHandler (its
\* service or its method is not in the registry, or its method string is
\* malformed) has a nil URL when it is handed to the callback and when it is
\* handed to the BackupHandler.
C36_BackupRequestHasNilURL ==
  \A r \in Handlers :
    (Routed(r) /\ h[r].handler = "BackupHandler") =>
      /\ h[r].URL = NilURL
      /\ \A i \in 1..Len(h[r].sent) : h[r].sent[i].URL = NilURL


(***************************************************************************)
(* C37                                                                     *)
(***************************************************************************)
\* the operations of a callback that write a response
Writes(o) == o.op \in {"WriteError", "WriteResponse"}

\* C37: the responded flag of a Request latches: it is false when the
\* callback is invoked; WriteError and WriteResponse set it and no other
\* operation changes it (ReadRequest, UpdateRequest and getClientRequest
\* leave it as it is; Method changes nothing); once true it stays true, so
\* after the callback it is true exactly when the callback wrote a response.
C37_RespondedLatches ==
  \A r \in Handlers :
    /\ h[r].pc = "callback" => ~h[r].req.responded
    /\ (h[r].hasReq /\ Routed(r)) =>
         LET q == h[r].req IN
         /\ q.responded <=> q.respWriter # << >>
         /\ \A o \in CbOps :
              ApplyOp(q, o).responded = (q.responded \/ Writes(o))
         /\ getClientRequest(q).q.responded = q.responded

\* a callback has returned that wrote an error and then called
\* UpdateRequest: the flag is set
C37_Witness ==
  \E r \in Handlers :
    /\ h[r].pc = "dispatch"
    /\ h[r].cbCalls = 1
    /\ h[r].req.responded
    /\ Len(h[r].req.respWriter) = 1
    /\ h[r].req.respWriter[1].kind = "error"
    /\ h[r].req.passedMethod # << >>


(***************************************************************************)
(* C38                                                                     *)
(***************************************************************************)
\* C38: with a callback configured, the callback is invoked exactly once
\* for every request that passes the routing step, the requests whose
\* target is the BackupHandler included, and before the request is handed
\* to its target; it is not invoked for a request that ends at the
\* preflight, the method check, the codec selection, the decoding of the
\* envelope or the routing, and never without a callback configured.
C38_CallbackOncePerRouted ==
  \A r \in Handlers :
    /\ h[r].cbCalls = (IF /\ RequestCallback
                          /\ h[r].hasReq
                          /\ h[r].pc \in {"dispatch", "reframe", "done"}
                       THEN 1 ELSE 0)
    /\ h[r].pc = "callback" => (h[r].hasReq /\ h[r].sent = << >>)
    /\ h[r].sent # << >> => h[r].hasReq

\* the callback has been invoked for a request that is then handed to the
\* BackupHandler
C38_Witness ==
  \E r \in Handlers :
    /\ RequestCallback
    /\ h[r].pc = "reframe"
    /\ h[r].handler = "BackupHandler"
    /\ h[r].cbCalls = 1
    /\ Len(h[r].sent) = 1


(***************************************************************************)
(* C39                                                                     *)
(***************************************************************************)
\* C39: in the earlier ServeHTTP, when getMethod fails and no BackupHandler
\* is configured, the handler writes the error of status 400 and stops: the
\* callback is not invoked, no upstream request is made and no second
\* response is written to the client.
C39_EarlierStopsAfter400 ==
  \A r \in Handlers :
    (/\ ~BackupHandler
     /\ h[r].err # ""
     /\ h[r].pc \in {"callback", "forward", "done"}) =>
      /\ h[r].pc = "done"
      /\ h[r].w = << Written("gateway", "error", 400, h[r].err) >>
      /\ h[r].cbCalls = 0
      /\ h[r].sent = << >>


(***************************************************************************)
(* C40                                                                     *)
(***************************************************************************)
\* C40: ServiceList.add honours its overwrite flag: a call with
\* overwrite=false for services of which one already exists returns an
\* error and leaves the map as it was, and only a call with overwrite=true
\* replaces an entry; so RegisterRemoteServices, which passes false, never
\* replaces a remote service that is registered.
C40_AddHonoursOverwrite ==
  [][remoteServices'.calls # remoteServices.calls =>
       LET c == remoteServices'.last
           old == remoteServices.Services
           new == remoteServices'.Services
       IN  /\ c.fetched =>
                IF ~c.overwrite /\ AlreadyExists(old, c.serv)
                THEN c.err /\ new = old
                ELSE ~c.err /\ new = AddAll(old, c.serv)
           /\ c.op = "RegisterRemoteServices" =>
                \A k \in DOMAIN old : new[k] = old[k]]_vars

====
